---- MODULE Spec2Model ----
(***************************************************************************)
(* Model of the SISCAN report extractor: the text utilities                *)
(* (src/extrator_laudo/utils/text_utils.py) and the section/field parser   *)
(* of SiscanReportExtractor (src/extrator_laudo/base.py) run against a     *)
(* layout of the shape declared in src/extrator_laudo/mamografia.py.       *)
(*                                                                         *)
(* A Python str is a sequence of one-character strings; Python None is the *)
(* value None below.  Offsets are 0-based as in Python.                    *)
(***************************************************************************)
EXTENDS Integers, Sequences, FiniteSets, TLC

None == <<"<None>">>

MinOf(S) == CHOOSE x \in S : \A y \in S : x <= y
MaxOf(S) == CHOOSE x \in S : \A y \in S : x >= y

\* Python slice text[a:b]
Sub(text, a, b) == IF b <= a THEN <<>> ELSE SubSeq(text, a + 1, b)

IsSpace(c) == c = " "

\* str.strip()
strip(s) ==
  LET nonsp == {i \in 1..Len(s) : ~IsSpace(s[i])}
  IN  IF nonsp = {} THEN <<>> ELSE SubSeq(s, MinOf(nonsp), MaxOf(nonsp))

\* str.find(word): offset of the first occurrence, -1 when absent
find(text, word) ==
  LET hits == {i \in 0..(Len(text) - Len(word)) : Sub(text, i, i + Len(word)) = word}
  IN  IF hits = {} THEN -1 ELSE MinOf(hits)

\* the Python test `word in text`
contains(text, word) == find(text, word) # -1

\* str.replace(old, ""): every non-overlapping occurrence, left to right
RECURSIVE replace(_, _)
replace(s, old) ==
  IF old = <<>> THEN s
  ELSE LET i == find(s, old)
       IN  IF i = -1 THEN s
           ELSE Sub(s, 0, i) \o replace(Sub(s, i + Len(old), Len(s)), old)

\* str.rstrip(ch)
rstrip(s, ch) ==
  LET keep == {i \in 1..Len(s) : s[i] # ch}
  IN  IF keep = {} THEN <<>> ELSE SubSeq(s, 1, MaxOf(keep))

UpperCase == <<"A", "B", "C", "D", "E", "F", "G", "H", "I", "J", "K", "L", "M",
               "N", "O", "P", "Q", "R", "S", "T", "U", "V", "W", "X", "Y", "Z">>
LowerCase == <<"a", "b", "c", "d", "e", "f", "g", "h", "i", "j", "k", "l", "m",
               "n", "o", "p", "q", "r", "s", "t", "u", "v", "w", "x", "y", "z">>
Digits == {"0", "1", "2", "3", "4", "5", "6", "7", "8", "9"}

\* unicodedata.normalize('NFD', c).encode('ascii', 'ignore'): an accented
\* letter keeps its base letter, any other non-ASCII character is dropped
Accented == [c \in {"Á", "Ã", "Ç", "É", "Í", "Ó", "Ú", "á", "ã", "ç", "é", "í", "ó", "ú"} |->
               CASE c = "Á" -> "A" [] c = "Ã" -> "A" [] c = "Ç" -> "C" [] c = "É" -> "E"
                 [] c = "Í" -> "I" [] c = "Ó" -> "O" [] c = "Ú" -> "U" [] c = "á" -> "a"
                 [] c = "ã" -> "a" [] c = "ç" -> "c" [] c = "é" -> "e" [] c = "í" -> "i"
                 [] c = "ó" -> "o" [] c = "ú" -> "u"]
NonAscii == {"º", "ª"}

IsUpper(c) == \E i \in 1..Len(UpperCase) : UpperCase[i] = c
IsLower(c) == \E i \in 1..Len(LowerCase) : LowerCase[i] = c
lower(c) == IF IsUpper(c) THEN LowerCase[CHOOSE i \in 1..Len(UpperCase) : UpperCase[i] = c] ELSE c

RECURSIVE nfd_ascii(_)
nfd_ascii(s) ==
  IF s = <<>> THEN <<>>
  ELSE LET c == Head(s)
           h == IF c \in DOMAIN Accented THEN <<Accented[c]>>
                ELSE IF c \in NonAscii THEN <<>> ELSE <<c>>
       IN  h \o nfd_ascii(Tail(s))

\* re.sub(r'\s+', '_', s)
RECURSIVE sub_spaces(_)
sub_spaces(s) ==
  IF s = <<>> THEN <<>>
  ELSE IF IsSpace(Head(s))
       THEN IF Len(s) > 1 /\ IsSpace(s[2]) THEN sub_spaces(Tail(s))
            ELSE <<"_">> \o sub_spaces(Tail(s))
       ELSE <<Head(s)>> \o sub_spaces(Tail(s))

\* re.sub(r'[^a-zA-Z0-9_]', '', s)
keep_word_chars(s) ==
  SelectSeq(s, LAMBDA c : IsUpper(c) \/ IsLower(c) \/ c \in Digits \/ c = "_")

lower_all(s) == [i \in 1..Len(s) |-> lower(s[i])]

\* as normalize, were the lower() of line 17 left out
normalize_keeps_case(text) == keep_word_chars(sub_spaces(nfd_ascii(text)))

\* TextUtils.normalize
normalize(text) == lower_all(keep_word_chars(sub_spaces(nfd_ascii(text))))

(***************************************************************************)
(* Python dict with insertion order: a sequence of [key, value] records    *)
(* with pairwise distinct keys.                                            *)
(***************************************************************************)
dict_keys(d) == {d[i].key : i \in 1..Len(d)}
dict_get(d, k) == IF k \in dict_keys(d)
                  THEN d[CHOOSE i \in 1..Len(d) : d[i].key = k].value ELSE None
dict_set(d, k, v) ==
  IF k \in dict_keys(d)
  THEN [i \in 1..Len(d) |-> IF d[i].key = k THEN [key |-> k, value |-> v] ELSE d[i]]
  ELSE Append(d, [key |-> k, value |-> v])

\* lookahead (?=\s+\S+?:) at offset k: a whitespace run, then a run of
\* non-space characters that holds a ':' after its first character
kv_lookahead(text, k) ==
  LET n == Len(text)
  IN  /\ k < n
      /\ IsSpace(text[k + 1])
      /\ \E m \in (k + 1)..(n - 1) :
           /\ \A q \in k..(m - 1) : IsSpace(text[q + 1])
           /\ ~IsSpace(text[m + 1])
           /\ \E p \in (m + 1)..(n - 1) :
                /\ text[p + 1] = ":"
                /\ \A q \in m..(p - 1) : ~IsSpace(text[q + 1])

\* offsets from pos at which (\S.*?): can start: a non-space character with a
\* ':' somewhere after it
kv_starts(text, pos) ==
  {i \in pos..(Len(text) - 1) :
     /\ ~IsSpace(text[i + 1])
     /\ \E j \in (i + 1)..(Len(text) - 1) : text[j + 1] = ":"}

\* (.*?)(?=\s+\S+?:|$) for a value starting at v0: it ends at the first
\* offset where the lookahead holds, else at the end of the text
kv_value(text, i, j, v0) ==
  [key |-> Sub(text, i, j),
   value |-> Sub(text, v0, MinOf({e \in v0..Len(text) : e = Len(text) \/ kv_lookahead(text, e)})),
   end |-> MinOf({e \in v0..Len(text) : e = Len(text) \/ kv_lookahead(text, e)})]

\* :\s* for a key ending at the ':' of offset j: the whitespace run is skipped
kv_colon(text, i, j) ==
  kv_value(text, i, j,
           MinOf({v \in (j + 1)..Len(text) : v = Len(text) \/ ~IsSpace(text[v + 1])}))

\* the match starting at offset i: the key runs to the first ':' after i
kv_match(text, i) ==
  kv_colon(text, i, MinOf({j \in (i + 1)..(Len(text) - 1) : text[j + 1] = ":"}))

\* re.findall(r"(\S.*?):\s*(.*?)(?=\s+\S+?:|$)", text) from offset pos
RECURSIVE kv_findall(_, _)
kv_findall(text, pos) ==
  IF kv_starts(text, pos) = {} THEN <<>>
  ELSE LET m == kv_match(text, MinOf(kv_starts(text, pos)))
       IN  <<[key |-> m.key, value |-> m.value]>> \o kv_findall(text, m.end)

RECURSIVE kv_dict(_, _)
kv_dict(matches, d) ==
  IF matches = <<>> THEN d
  ELSE kv_dict(Tail(matches),
               dict_set(d, strip(Head(matches).key), strip(Head(matches).value)))

\* TextUtils.extract_key_value_pairs
extract_key_value_pairs(text) == kv_dict(kv_findall(text, 0), <<>>)

\* p goes into the sorted list done after every entry whose start is <= its own
insert_position(done, p) ==
  LET before == {i \in 1..Len(done) : done[i].start <= p.start}
      cut == IF before = {} THEN 0 ELSE MaxOf(before)
  IN  SubSeq(done, 1, cut) \o <<p>> \o SubSeq(done, cut + 1, Len(done))

\* as sort_positions, were the sort of line 87 left out
sort_positions_unsorted(ps) == ps

\* list.sort(key=start), stable
RECURSIVE sort_positions(_)
sort_positions(ps) ==
  IF ps = <<>> THEN <<>>
  ELSE insert_position(sort_positions(SubSeq(ps, 1, Len(ps) - 1)), ps[Len(ps)])

\* lines 77-85: the entry of a label found at offset s (-1: not found)
label_position(label, s) ==
  IF s = -1 THEN <<>>
  ELSE <<[key |-> rstrip(label, ":"), start |-> s, end |-> s + Len(label)]>>

\* label positions found by re.search(re.escape(label), text), in list order
RECURSIVE label_positions(_, _)
label_positions(text, labels) ==
  IF labels = <<>> THEN <<>>
  ELSE label_position(Head(labels), find(text, Head(labels)))
         \o label_positions(text, Tail(labels))

RECURSIVE values_between(_, _, _, _)
values_between(text, positions, i, result) ==
  IF i > Len(positions) THEN result
  ELSE LET next_start == IF i + 1 <= Len(positions) THEN positions[i + 1].start ELSE Len(text)
           raw_value == strip(Sub(text, positions[i].end, next_start))
       IN  values_between(text, positions, i + 1,
                          dict_set(result, positions[i].key,
                                   IF raw_value # <<>> THEN raw_value ELSE None))

\* TextUtils.get_text_after_words
get_text_after_words(text, labels) ==
  values_between(text, sort_positions(label_positions(text, labels)), 1, <<>>)

(***************************************************************************)
(* The report layout: get_ignore_lines, get_fields and get_sections_all of *)
(* SiscanReportMammographyExtract, with every title and label abbreviated  *)
(* (PACIENTE is "P", Telefone is "T", "Emissão:" is "Em:", ...), keeping   *)
(* which labels end in ':' and which section has declared fields or a      *)
(* subsection x coordinate.                                                *)
(***************************************************************************)
UNIDADE == <<"U", " ", "Ú">>
PACIENTE == <<"P">>
PRESTADOR == <<"S">>
RESULTADO == <<"R", " ", "E">>
RESPONSAVEL == <<"R", " ", "P">>

SubsectionX0 == 36

get_ignore_lines == {<<"#">>, <<"L", "D">>}

get_fields ==
  [k \in {None, RESPONSAVEL, PACIENTE} |->
     CASE k = None -> << <<"E", "m", ":">>, <<"U", "F">> >>
       [] k = RESPONSAVEL -> << <<"D", "t", ":">> >>
       [] k = PACIENTE -> << <<"T">> >>]

\* 'subsections_coordinate_x0' None is 0 here (both are falsy in the test of line 469)
get_sections_all ==
  [k \in {UNIDADE, PACIENTE, PRESTADOR, RESULTADO, RESPONSAVEL} |->
     CASE k = UNIDADE -> [fields |-> << <<"N", ":">>, <<"U", "F", ":">> >>,
                          subsections_coordinate_x0 |-> 0]
       [] k = RESULTADO -> [fields |-> <<>>, subsections_coordinate_x0 |-> SubsectionX0]
       [] OTHER -> [fields |-> <<>>, subsections_coordinate_x0 |-> 0]]

\* dict.get(k) of the working label dictionary (None when k is no key)
fields_get(fields_dict, k) == IF k \in DOMAIN fields_dict THEN fields_dict[k] ELSE <<>>

\* list.remove(x): the first occurrence
list_remove(l, x) ==
  LET i == MinOf({j \in 1..Len(l) : l[j] = x})
  IN  SubSeq(l, 1, i - 1) \o SubSeq(l, i + 1, Len(l))
list_has(l, x) == \E j \in 1..Len(l) : l[j] = x

\* data[k] = v on the page record (a function from key to value)
data_set(data, k, v) == [x \in (DOMAIN data) \cup {k} |-> IF x = k THEN v ELSE data[x]]
data_get(data, k) == IF k \in DOMAIN data THEN data[k] ELSE None

truthy(v) == v # None /\ v # <<>>

\* as labeled_value, were the ':' test of line 331 left out
labeled_value_positional(value0, clean_line) == [value |-> value0, raised |-> ""]

\* as labeled_value, were the last pair's value taken instead of the first
labeled_value_last(value0, clean_line) ==
  IF truthy(value0) /\ contains(value0, <<":">>)
  THEN LET pairs == extract_key_value_pairs(clean_line)
       IN  IF pairs = <<>> THEN [value |-> value0, raised |-> "StopIteration"]
           ELSE [value |-> pairs[Len(pairs)].value, raised |-> ""]
  ELSE [value |-> value0, raised |-> ""]

\* lines 331-343: the value kept for a label whose positional value is value0;
\* next(iter(...)) raises StopIteration on an empty dictionary
labeled_value(value0, clean_line) ==
  IF truthy(value0) /\ contains(value0, <<":">>)
  THEN LET pairs == extract_key_value_pairs(clean_line)
       IN  IF pairs = <<>> THEN [value |-> value0, raised |-> "StopIteration"]
           ELSE [value |-> pairs[1].value, raised |-> ""]
  ELSE [value |-> value0, raised |-> ""]

\* as labeled_item_remove, were the list.remove of lines 350 and 356 left out
labeled_item_keeps_label(field, removed, override, value, section_name, key, labels, acc) ==
  [acc EXCEPT !.clean_line = strip(replace(@, removed)),
              !.writes = Append(@, [section |-> section_name, field |-> field,
                                    key |-> key, value |-> value,
                                    override |-> override])]

\* lines 349-354: the label leaves the section's label list and the line, with
\* its ':' when the list holds it so
labeled_item_remove(field, removed, override, value, section_name, key, labels, acc) ==
  [acc EXCEPT !.clean_line = strip(replace(@, removed)),
              !.fields_dict = [@ EXCEPT ![section_name] = list_remove(labels, removed)],
              !.writes = Append(@, [section |-> section_name, field |-> field,
                                    key |-> key, value |-> value,
                                    override |-> override])]

\* lines 349-354 on acc, the state after the record write: list.remove raises
\* ValueError a second time when the list holds neither form of the label
labeled_item_label(field, override, value, section_name, key, labels, acc) ==
  IF list_has(labels, field \o <<":">>)
  THEN labeled_item_remove(field, field \o <<":">>, override, value, section_name, key,
                           labels, acc)
  ELSE IF list_has(labels, field)
  THEN labeled_item_remove(field, field, override, value, section_name, key, labels, acc)
  ELSE [acc EXCEPT !.raised = "ValueError"]

\* lines 344-348 for the value kept: the record write, then the value leaves
\* the line
labeled_item_write(field, override, kept, section_name, key, acc) ==
  IF kept.raised # "" THEN [acc EXCEPT !.raised = "StopIteration"]
  ELSE labeled_item_label(field, override, kept.value, section_name, key,
                          acc.fields_dict[section_name],
                          [acc EXCEPT !.data = data_set(@, key, kept.value),
                                      !.clean_line = IF truthy(kept.value)
                                                     THEN strip(replace(@, kept.value))
                                                     ELSE @])

\* lines 330-354: one iteration of the loop, for the label field and its
\* positional value value0
labeled_item(field, value0, section_name, section_name_key, acc) ==
  labeled_item_write(field, truthy(value0) /\ contains(value0, <<":">>),
                     labeled_value(value0, acc.clean_line), section_name,
                     section_name_key \o normalize(field), acc)

\* the loop of _extract_labeled_field over data_extracted.items()
RECURSIVE labeled_items(_, _, _, _, _)
labeled_items(items, i, section_name, section_name_key, acc) ==
  IF i > Len(items) \/ acc.raised # "" THEN acc
  ELSE labeled_items(items, i + 1, section_name, section_name_key,
                     labeled_item(items[i].key, items[i].value, section_name,
                                  section_name_key, acc))

\* lines 327-330: the labels found on the line
labeled_fields_found(data_extracted, section_name, section_name_key, acc) ==
  IF data_extracted # <<>>
  THEN labeled_items(data_extracted, 1, section_name, section_name_key,
                     [acc EXCEPT !.extracted_lines = @ \cup {acc.clean_line},
                                 !.matched = TRUE])
  ELSE acc

\* SiscanReportExtractor._extract_labeled_field; acc carries fields_dict,
\* clean_line, extracted_lines, data, the exception raised ("" for none) and
\* the log of the record writes made
extract_labeled_field(section_name, section_name_key, acc) ==
  IF fields_get(acc.fields_dict, section_name) # <<>>
  THEN labeled_fields_found(get_text_after_words(acc.clean_line,
                                                 acc.fields_dict[section_name]),
                            section_name, section_name_key, acc)
  ELSE acc

\* data[section_name_key + normalize(key)] = value for every pair (lines 501-503)
RECURSIVE write_pairs(_, _, _)
write_pairs(data, section_name_key, pairs) ==
  IF pairs = <<>> THEN data
  ELSE write_pairs(data_set(data, section_name_key \o normalize(Head(pairs).key),
                            Head(pairs).value),
                   section_name_key, Tail(pairs))

\* as unlabeled_content, were line 537 an assignment instead of `+=`
unlabeled_content_overwrite(st, section_name_key, clean_line) ==
  [st EXCEPT !.section_name_key = section_name_key,
             !.reading_multiple_lines_content =
                IF data_get(st.data, section_name_key) = None THEN @ ELSE TRUE,
             !.data = data_set(st.data, section_name_key, clean_line),
             !.rules = @ \cup {"continuation"},
             !.branch = IF data_get(st.data, section_name_key) = None
                        THEN "store" ELSE "append"]

\* lines 530-537: an unlabeled line is the value of the key named so far, or
\* continues that value
unlabeled_content(st, section_name_key, clean_line) ==
  IF data_get(st.data, section_name_key) = None
  THEN [st EXCEPT !.section_name_key = section_name_key,
                  !.data = data_set(st.data, section_name_key, clean_line),
                  !.rules = @ \cup {"continuation"},
                  !.branch = "store"]
  ELSE [st EXCEPT !.section_name_key = section_name_key,
                  !.reading_multiple_lines_content = TRUE,
                  !.data = data_set(st.data, section_name_key,
                                    st.data[section_name_key] \o <<";", " ">> \o clean_line),
                  !.rules = @ \cup {"continuation"},
                  !.branch = "append"]

\* lines 530-546 on st1, the state after the subsection steps, for the key
\* prefix key1 and the text clean1
section_content(st1, is_subsection, key1, clean1) ==
  IF ~st1.extract_key_value /\ ~is_subsection
  THEN unlabeled_content(st1, rstrip(key1, "_"), clean1)
  ELSE [st1 EXCEPT !.section_name_key = key1 \o normalize(clean1) \o <<"_", "_">>,
                   !.extract_key_value = FALSE,
                   !.rules = @ \cup {"subsection"},
                   !.branch = IF is_subsection THEN "subsection" ELSE "nested"]

\* as subsection_key, were line 516 left out
subsection_key_keeps_prefix(st, is_subsection, new_subsection) ==
  IF ~is_subsection \/ new_subsection THEN st.section_name_key
  ELSE normalize(st.section_name) \o <<"_", "_">>
         \o normalize(st.subsection_name) \o <<"_", "_">>

\* as subsection_key, were the subsection left out of the prefix of line 521
subsection_key_section_only(st, is_subsection, new_subsection) ==
  IF ~is_subsection THEN st.section_name_key
  ELSE normalize(st.section_name) \o <<"_", "_">>

\* lines 512-527: the key prefix after the subsection steps
subsection_key(st, is_subsection, new_subsection) ==
  IF ~is_subsection THEN st.section_name_key
  ELSE IF new_subsection THEN normalize(st.section_name) \o <<"_", "_">>
  ELSE normalize(st.section_name) \o <<"_", "_">>
         \o normalize(st.subsection_name) \o <<"_", "_">>

\* as section_subsection, were line 529 left out
section_subsection_not_extracted(st, line, clean_line, is_subsection, new_subsection) ==
  IF is_subsection /\ ~new_subsection /\ st.subsection_name = None
  THEN [st EXCEPT !.raised = "TypeError",
                  !.rules = @ \cup {"subsection"},
                  !.branch = "type_error"]
  ELSE section_content(
         [st EXCEPT !.subsection_name = IF new_subsection THEN clean_line ELSE @,
                    !.reading_multiple_lines_content =
                       IF new_subsection THEN FALSE ELSE @],
         is_subsection, subsection_key(st, is_subsection, new_subsection),
         IF is_subsection THEN replace(clean_line, <<":">>) ELSE clean_line)

\* lines 505-546: the line holds no pair to store; normalize(None) raises
\* TypeError
section_subsection(st, line, clean_line, is_subsection, new_subsection) ==
  IF is_subsection /\ ~new_subsection /\ st.subsection_name = None
  THEN [st EXCEPT !.raised = "TypeError",
                  !.rules = @ \cup {"subsection"},
                  !.branch = "type_error"]
  ELSE section_content(
         [st EXCEPT !.subsection_name = IF new_subsection THEN clean_line ELSE @,
                    !.reading_multiple_lines_content =
                       IF new_subsection THEN FALSE ELSE @,
                    !.extracted_lines = @ \cup {line}],
         is_subsection, subsection_key(st, is_subsection, new_subsection),
         IF is_subsection THEN replace(clean_line, <<":">>) ELSE clean_line)

\* as section_pairs, were the flag not tested at line 497
section_pairs_ignores_flag(st, line, clean_line, is_subsection, has_fields, data_extracted) ==
  IF data_extracted # <<>>
  THEN [st EXCEPT !.extract_key_value = TRUE,
                  !.extracted_lines = @ \cup {line},
                  !.data = write_pairs(@, st.section_name_key, data_extracted),
                  !.rules = @ \cup {"field"},
                  !.branch = IF has_fields THEN "fields" ELSE "key_value"]
  ELSE section_subsection(st, line, clean_line, is_subsection,
                          is_subsection /\ ~contains(clean_line, <<":">>))

\* lines 496-546 for the pairs data_extracted read from the line
section_pairs(st, line, clean_line, is_subsection, has_fields, data_extracted) ==
  IF ~st.reading_multiple_lines_content /\ data_extracted # <<>>
  THEN [st EXCEPT !.extract_key_value = TRUE,
                  !.extracted_lines = @ \cup {line},
                  !.data = write_pairs(@, st.section_name_key, data_extracted),
                  !.rules = @ \cup {"field"},
                  !.branch = IF has_fields THEN "fields" ELSE "key_value"]
  ELSE section_subsection(st, line, clean_line, is_subsection,
                          is_subsection /\ ~contains(clean_line, <<":">>))

\* lines 484-494: the free pairs are read when the declared fields gave
\* nothing and the line is not at the subsection coordinate
section_fields(st, line, clean_line, is_subsection, by_fields) ==
  section_pairs(st, line, clean_line, is_subsection, by_fields # <<>>,
                IF by_fields = <<>> /\ ~is_subsection
                THEN extract_key_value_pairs(clean_line) ELSE by_fields)

\* lines 465-546: the body of `if section_name:` for the remainder clean_line.
\* st is the parser state after the label steps.
section_block(st, line, x0, clean_line) ==
  LET section == get_sections_all[st.section_name]
  IN  section_fields(st, line, clean_line,
                     section.subsections_coordinate_x0 # 0
                       /\ section.subsections_coordinate_x0 = x0,
                     IF section.fields # <<>>
                     THEN get_text_after_words(clean_line, section.fields) ELSE <<>>)

\* as section_title, were line 443 left out
section_title_keeps_flag(st, line, clean_line) ==
  [st EXCEPT !.extracted_lines = @ \cup {line},
             !.section_name = clean_line,
             !.section_name_key = normalize(clean_line) \o <<"_", "_">>,
             !.rules = {"section"}, !.branch = "section"]

\* lines 437-444: the line is a section title
section_title(st, line, clean_line) ==
  [st EXCEPT !.extracted_lines = @ \cup {line},
             !.section_name = clean_line,
             !.section_name_key = normalize(clean_line) \o <<"_", "_">>,
             !.reading_multiple_lines_content = FALSE,
             !.rules = {"section"}, !.branch = "section"]

\* as global_labels, were the current section's prefix passed at line 451
global_labels_section_prefix(st) ==
  extract_labeled_field(None, st.section_name_key, st)

\* lines 449-452: the labels of get_fields()[None], whatever the section
global_labels(st) ==
  extract_labeled_field(None, <<"g", "e", "r", "a", "l", "_", "_">>, st)

\* a line from which a label was read is a field line
mark_field(st) == [st EXCEPT !.rules = IF st.matched THEN @ \cup {"field"} ELSE @]

\* lines 458-463: the labels of the current section
section_labels(st) ==
  IF fields_get(st.fields_dict, st.section_name) # <<>>
  THEN extract_labeled_field(st.section_name, st.section_name_key, st)
  ELSE st

\* lines 465-547 on s, the state after the section label step
after_section_labels(s, line, x0) ==
  IF s.raised # "" THEN [s EXCEPT !.branch = "raised"]
  ELSE IF s.section_name # None THEN section_block(s, line, x0, s.clean_line)
  ELSE [s EXCEPT !.branch = "no_section"]

\* lines 453-547 on g, the state after the global label step
after_global_labels(g, has_global, line, x0) ==
  IF g.raised # "" THEN [g EXCEPT !.branch = "raised"]
  ELSE IF has_global /\ g.clean_line = <<>> THEN [g EXCEPT !.branch = "labels"]
  ELSE after_section_labels(mark_field(section_labels([g EXCEPT !.matched = FALSE])),
                            line, x0)

\* as classify_line, were the continuation flag cleared by an ignore line
classify_line_ignore_clears(st, line, x0, clean_line) ==
  IF clean_line \in get_ignore_lines
  THEN [st EXCEPT !.extracted_lines = @ \cup {line},
                  !.reading_multiple_lines_content = FALSE,
                  !.rules = {"ignored"}, !.branch = "ignore"]
  ELSE IF clean_line \in DOMAIN get_sections_all
  THEN section_title(st, line, clean_line)
  ELSE after_global_labels(mark_field(IF fields_get(st.fields_dict, None) # <<>>
                                      THEN global_labels(st) ELSE st),
                           fields_get(st.fields_dict, None) # <<>>, line, x0)

\* lines 432-547 for the stripped line clean_line
classify_line(st, line, x0, clean_line) ==
  IF clean_line \in get_ignore_lines
  THEN [st EXCEPT !.extracted_lines = @ \cup {line},
                  !.rules = {"ignored"}, !.branch = "ignore"]
  ELSE IF clean_line \in DOMAIN get_sections_all
  THEN section_title(st, line, clean_line)
  ELSE after_global_labels(mark_field(IF fields_get(st.fields_dict, None) # <<>>
                                      THEN global_labels(st) ELSE st),
                           fields_get(st.fields_dict, None) # <<>>, line, x0)

\* lines 426-547: one iteration of `for line, x0, y0 in lines` on parser state st0
process_line(st0, line, x0) ==
  classify_line([st0 EXCEPT !.rules = {}, !.writes = <<>>, !.branch = "",
                            !.matched = FALSE, !.clean_line = strip(line)],
                line, x0, strip(line))

(***************************************************************************)
(* _process_report as a state machine: one document is parsed page by      *)
(* page, one reconstructed line per step.                                  *)
(***************************************************************************)
MaxLines == 4
MaxPages == 2

\* reconstructed lines (text, x0) as the pages of a report hold them
IgnoredLine == [text |-> <<"#">>, x0 |-> 10]
TitleP == [text |-> PACIENTE, x0 |-> 10]
TitleR == [text |-> RESULTADO, x0 |-> 10]
TitleU == [text |-> UNIDADE, x0 |-> 10]
LineA == [text |-> <<"a">>, x0 |-> 10]
LineM == [text |-> <<"M">>, x0 |-> SubsectionX0]
LineK == [text |-> <<"K", ":">>, x0 |-> SubsectionX0]
LineEmUF == [text |-> <<"E", "m", ":", " ", "1", " ", "U", "F", ":", " ", "p">>, x0 |-> 10]
LineT == [text |-> <<"T", ":", " ", "4">>, x0 |-> 10]
LineNUF == [text |-> <<"N", ":", " ", "x", " ", "U", "F", ":", " ", "p">>, x0 |-> 10]

\* the documents parsed: each is made of the lines of one of these sets
LinePools ==
  { {IgnoredLine, TitleP, LineA, LineM, LineT, LineEmUF},
    {TitleR, LineA, LineM, LineK, LineEmUF},
    {TitleU, LineNUF, LineA, LineEmUF} }

VARIABLES pc, page_number, lines, classes, data, extracted_lines, fields_dict,
          section_name, section_name_key, subsection_name, extract_key_value,
          reading_multiple_lines_content, pages_data, pages_pending_lines, raised,
          nread, pre, last, pool, matched_labels,
          scan_pc, scan_text, scan_labels, scan_result, scan_perm, scan_perm_result

scan_vars == <<scan_pc, scan_text, scan_labels, scan_result, scan_perm, scan_perm_result>>

\* _extract_lines_from_page: its locals words_raw, words, current_line,
\* current_y and lines (rec_lines), the position rec_i of its loop, and the
\* words that went into each line (line_words)
VARIABLES rec_pc, words_raw, words, rec_i, current_line, current_y, rec_lines, line_words

rec_vars == <<rec_pc, words_raw, words, rec_i, current_line, current_y, rec_lines,
              line_words>>

\* TextUtils.normalize applied to a text, then to its own result
VARIABLES norm_pc, norm_text, norm_once, norm_twice

norm_vars == <<norm_pc, norm_text, norm_once, norm_twice>>

\* SiscanReportExtractor.process: the directory listing (files), the argument
\* selected_pages, the position file_i of the loop over the files, all_df and
\* all_pages_pending_lines; row_origin holds the file and page each row of
\* all_df came from, skipped the files the loop left with `continue`,
\* proc_raised the exception that left process. The extractor object: its
\* attribute _df (self_df), the number of calls of process made (calls) and
\* returned (completed), _df as it was when the running call started
\* (df_before), and the outcome of the last read of the property df (df_access)
VARIABLES proc_pc, files, selected_pages, file_i, all_df, all_pages_pending_lines,
          row_origin, skipped, proc_raised, self_df, calls, completed, df_before,
          df_access

proc_vars == <<proc_pc, files, selected_pages, file_i, all_df, all_pages_pending_lines,
               row_origin, skipped, proc_raised, self_df, calls, completed, df_before,
               df_access>>

\* the web application (app.py): the module constant TOKEN, the flag
\* session["logged_in"] of a client's session, the number of uploads processed
\* and of requests served, the last request (with the session flag and the
\* number of uploads processed when it arrived) and its response
VARIABLES TOKEN, logged_in, uploads_processed, nrequests, web_request, web_response

\* uploads handled at the same time (ReportService.build_excel): the step each
\* request is at (up_pc) and the number of pages of the file it uploads
\* (up_file); the request whose file is at tmp/input.pdf (tmp_input, 0 when
\* there is none) and, for each page number n with a file
\* tmp/pages/input_page_n.pdf, the request whose file that page was cut from
\* (tmp_pages); the request whose file each request's dataset was read from
\* (up_df, 0 before process) and the origin of the page files its links name
\* (up_links)
VARIABLES up_pc, up_file, tmp_input, tmp_pages, up_df, up_links

up_vars == <<up_pc, up_file, tmp_input, tmp_pages, up_df, up_links>>

\* the column Alterado of build_excel for one row of the dataset (alt_row):
\* the arguments birads_md, birads_me and usg of definir_alterado and its
\* result (alterado)
VARIABLES alt_pc, alt_row, birads_md, birads_me, usg, alterado

alt_vars == <<alt_pc, alt_row, birads_md, birads_me, usg, alterado>>

web_vars == <<TOKEN, logged_in, uploads_processed, nrequests, web_request, web_response,
              up_vars, alt_vars>>

aux_vars == <<rec_vars, norm_vars, proc_vars, web_vars>>

vars == <<pc, page_number, lines, classes, data, extracted_lines, fields_dict,
          section_name, section_name_key, subsection_name, extract_key_value,
          reading_multiple_lines_content, pages_data, pages_pending_lines, raised,
          nread, pre, last, pool, matched_labels, scan_vars, aux_vars>>

\* the variables of _process_report
parser_vars == <<pc, page_number, lines, classes, data, extracted_lines, fields_dict,
                 section_name, section_name_key, subsection_name, extract_key_value,
                 reading_multiple_lines_content, pages_data, pages_pending_lines, raised,
                 nread, pre, last, pool, matched_labels>>

EmptyData == [k \in {} |-> None]

\* history: the parser state before the last line read, and what that line did
\* (the branch taken, the label writes made and the text left of the line after
\* the label steps)
NoPre == [section_name |-> None, section_name_key |-> <<>>, subsection_name |-> None,
          extract_key_value |-> FALSE, reading_multiple_lines_content |-> FALSE,
          data |-> EmptyData, fields_dict |-> get_fields]
NoLast == [text |-> <<>>, x0 |-> 0, branch |-> "", writes |-> <<>>, remainder |-> <<>>]

\* lines 389-392 and 405-423: the state in which the first page's loop starts
InitParser ==
  /\ pc = "page"
  /\ page_number = 1
  /\ lines = <<>>
  /\ classes = <<>>
  /\ data = EmptyData
  /\ extracted_lines = {}
  /\ fields_dict = get_fields
  /\ section_name = None
  /\ section_name_key = <<>>
  /\ subsection_name = None
  /\ extract_key_value = FALSE
  /\ reading_multiple_lines_content = FALSE
  /\ pages_data = <<>>
  /\ pages_pending_lines = [p \in {} |-> {}]
  /\ raised = ""
  /\ nread = 0
  /\ pre = NoPre
  /\ last = NoLast
  /\ matched_labels = <<>>

\* current_y = None (line 257): no word of a page has a negative y0
NoneY == -1

\* _extract_lines_from_page is not running
IdleLines ==
  /\ rec_pc = "idle"
  /\ words_raw = <<>>
  /\ words = <<>>
  /\ rec_i = 0
  /\ current_line = <<>>
  /\ current_y = NoneY
  /\ rec_lines = <<>>
  /\ line_words = <<>>

\* TextUtils.normalize is not running
IdleNorm ==
  /\ norm_pc = "idle"
  /\ norm_text = <<>>
  /\ norm_once = <<>>
  /\ norm_twice = <<>>

\* self._df = None (line 29)
NoDf == [none |-> TRUE, rows |-> <<>>]

\* the property df was not read
NoAccess == [read |-> FALSE, raised |-> "", rows |-> <<>>]

\* process is not running: no selection (selected_pages is None), no file
IdleProcess ==
  /\ proc_pc = "idle"
  /\ files = <<>>
  /\ selected_pages = [none |-> TRUE, pages |-> <<>>]
  /\ file_i = 0
  /\ all_df = <<>>
  /\ all_pages_pending_lines = [f \in {} |-> {}]
  /\ row_origin = <<>>
  /\ skipped = {}
  /\ proc_raised = ""
  /\ self_df = NoDf
  /\ calls = 0
  /\ completed = 0
  /\ df_before = NoDf
  /\ df_access = NoAccess

NoRequest == [route |-> "", method |-> "", token |-> None, has_file |-> FALSE,
              logged_in |-> FALSE, uploads_processed |-> 0]
NoResponse == [kind |-> "", flashed |-> <<>>]

NoPages == [n \in {} |-> 0]

\* no upload is being handled
IdleUploads ==
  /\ up_pc = <<>>
  /\ up_file = <<>>
  /\ tmp_input = 0
  /\ tmp_pages = NoPages
  /\ up_df = <<>>
  /\ up_links = <<>>

\* np.nan, and an integer, as values of a BI-RADS number
NaN == [nan |-> TRUE, n |-> 0]
Number(n) == [nan |-> FALSE, n |-> n]

NoRow == [md |-> <<>>, me |-> <<>>, tipo_md |-> <<>>, tipo_me |-> <<>>,
          recomendacoes |-> <<>>]

\* no row is being classified
IdleAlterado ==
  /\ alt_pc = "idle"
  /\ alt_row = NoRow
  /\ birads_md = NaN
  /\ birads_me = NaN
  /\ usg = 0
  /\ alterado = 0

\* the web application serves no request
IdleWeb ==
  /\ TOKEN = None
  /\ logged_in = FALSE
  /\ uploads_processed = 0
  /\ nrequests = 0
  /\ web_request = NoRequest
  /\ web_response = NoResponse
  /\ IdleUploads
  /\ IdleAlterado

IdleAux == IdleLines /\ IdleNorm /\ IdleProcess /\ IdleWeb

Init ==
  /\ InitParser
  /\ pool \in LinePools
  /\ scan_pc = "idle"
  /\ scan_text = <<>>
  /\ scan_labels = <<>>
  /\ scan_result = <<>>
  /\ scan_perm = <<>>
  /\ scan_perm_result = <<>>
  /\ IdleAux

ParserState ==
  [fields_dict |-> fields_dict, data |-> data, extracted_lines |-> extracted_lines,
   section_name |-> section_name, section_name_key |-> section_name_key,
   subsection_name |-> subsection_name, extract_key_value |-> extract_key_value,
   reading_multiple_lines_content |-> reading_multiple_lines_content,
   raised |-> "", rules |-> {}, writes |-> <<>>, branch |-> "", matched |-> FALSE,
   clean_line |-> <<>>]

\* the parser variables after a line l whose iteration ended in state r
StoreLine(r, l) ==
  /\ fields_dict' = r.fields_dict
  /\ data' = r.data
  /\ extracted_lines' = r.extracted_lines
  /\ section_name' = r.section_name
  /\ section_name_key' = r.section_name_key
  /\ subsection_name' = r.subsection_name
  /\ extract_key_value' = r.extract_key_value
  /\ reading_multiple_lines_content' = r.reading_multiple_lines_content
  /\ raised' = r.raised
  /\ pc' = IF r.raised # "" THEN "raised" ELSE "page"
  /\ classes' = Append(classes, r.rules)
  /\ last' = [text |-> l.text, x0 |-> l.x0, branch |-> r.branch, writes |-> r.writes,
              remainder |-> r.clean_line]
  /\ matched_labels' = matched_labels \o
                          [i \in 1..Len(r.writes) |->
                             [page |-> page_number, section |-> r.writes[i].section,
                              field |-> r.writes[i].field]]

\* lines 426-547 for the next line l of the page
TakeLine(l) ==
  /\ pc = "page"
  /\ StoreLine(process_line(ParserState, l.text, l.x0), l)
  /\ lines' = Append(lines, l)
  /\ nread' = nread + 1
  /\ pre' = [section_name |-> section_name, section_name_key |-> section_name_key,
             subsection_name |-> subsection_name, extract_key_value |-> extract_key_value,
             reading_multiple_lines_content |-> reading_multiple_lines_content,
             data |-> data, fields_dict |-> fields_dict]
  /\ UNCHANGED <<page_number, pages_data, pages_pending_lines, pool, scan_vars, aux_vars>>

\* a document of at most MaxLines lines
ReadLine(l) ==
  /\ nread < MaxLines
  /\ TakeLine(l)

\* lines 232-236: the page has no words
EmptyPage ==
  /\ pc = "page"
  /\ lines = <<>>
  /\ pc' = "raised"
  /\ raised' = "EmptyDocumentError"
  /\ pre' = NoPre
  /\ last' = NoLast
  /\ UNCHANGED <<page_number, lines, classes, data, extracted_lines, fields_dict,
                 section_name, section_name_key, subsection_name, extract_key_value,
                 reading_multiple_lines_content, pages_data, pages_pending_lines, nread, pool,
                 matched_labels, scan_vars,
                 aux_vars>>

\* lines 549-556: the page's loop is over; more says whether the document has
\* another page (line 405) or the function returns (lines 558-568)
EndPage(more) ==
  /\ pc = "page"
  /\ lines # <<>>
  /\ more => page_number < MaxPages /\ nread < MaxLines
  /\ LET pending_lines == {lines[i].text : i \in 1..Len(lines)} \ extracted_lines
     IN  /\ pages_pending_lines' =
              IF pending_lines # {}
              THEN [p \in (DOMAIN pages_pending_lines) \cup {page_number} |->
                      IF p = page_number THEN pending_lines ELSE pages_pending_lines[p]]
              ELSE pages_pending_lines
         /\ classes' = [i \in 1..Len(lines) |->
                          IF lines[i].text \in pending_lines
                          THEN classes[i] \cup {"pending"} ELSE classes[i]]
  /\ pages_data' = Append(pages_data, data)
  /\ pc' = IF more THEN "page_end" ELSE "done"
  /\ pre' = NoPre
  /\ last' = NoLast
  /\ UNCHANGED <<page_number, lines, data, extracted_lines, fields_dict,
                 section_name, section_name_key, subsection_name, extract_key_value,
                 reading_multiple_lines_content, raised, nread, pool, matched_labels, scan_vars,
                 aux_vars>>

\* as StartPage, were the working label dictionary of line 416 built once per
\* document instead of once per page
StartPage_keeps_labels ==
  /\ pc = "page_end"
  /\ pc' = "page"
  /\ page_number' = page_number + 1
  /\ lines' = <<>>
  /\ classes' = <<>>
  /\ data' = EmptyData
  /\ section_name' = None
  /\ section_name_key' = <<>>
  /\ subsection_name' = None
  /\ extract_key_value' = FALSE
  /\ reading_multiple_lines_content' = FALSE
  /\ UNCHANGED <<fields_dict, extracted_lines, pages_data, pages_pending_lines, raised,
                 nread, pre, last, pool, matched_labels, scan_vars,
                 aux_vars>>

\* as StartPage, were the section and the key prefix of lines 418-419 kept
\* from the page before
StartPage_keeps_section ==
  /\ pc = "page_end"
  /\ pc' = "page"
  /\ page_number' = page_number + 1
  /\ lines' = <<>>
  /\ classes' = <<>>
  /\ data' = EmptyData
  /\ fields_dict' = get_fields
  /\ subsection_name' = None
  /\ extract_key_value' = FALSE
  /\ reading_multiple_lines_content' = FALSE
  /\ UNCHANGED <<section_name, section_name_key, extracted_lines, pages_data,
                 pages_pending_lines, raised, nread, pre, last, pool, matched_labels,
                 scan_vars, aux_vars>>

\* lines 405-423: the next page of the document
StartPage ==
  /\ pc = "page_end"
  /\ pc' = "page"
  /\ page_number' = page_number + 1
  /\ lines' = <<>>
  /\ classes' = <<>>
  /\ data' = EmptyData
  /\ fields_dict' = get_fields
  /\ section_name' = None
  /\ section_name_key' = <<>>
  /\ subsection_name' = None
  /\ extract_key_value' = FALSE
  /\ reading_multiple_lines_content' = FALSE
  /\ UNCHANGED <<extracted_lines, pages_data, pages_pending_lines, raised, nread, pre,
                 last, pool, matched_labels, scan_vars,
                 aux_vars>>

Next ==
  \/ \E l \in pool : ReadLine(l)
  \/ EmptyPage
  \/ \E more \in BOOLEAN : EndPage(more)
  \/ StartPage

Spec == Init /\ [][Next]_vars

(***************************************************************************)
(* TextUtils.get_text_after_words on its own: a line and a label list are  *)
(* drawn, the list is resolved, then a permutation of it is resolved.      *)
(***************************************************************************)
MaxLabels == 3

\* "Conselho:", "Nome", "Nome da mãe:", "Data da liberação do resultado:" abbreviated
ScanLabels == { <<"C", ":">>, <<"N">>, <<"N", "m", ":">>, <<"D", ":">> }

ScanTexts ==
  { <<"C", ":", " ", "9", " ", "N", "m", ":", " ", "8", " ", "D", ":", " ", "2">>,
    <<"D", ":", " ", "2", " ", "N", "m", ":", " ", "8", " ", "C", ":", " ", "9">>,
    <<"N", "m", ":", " ", "8">>,
    <<"C", ":", " ", "D", ":", " ", "2">>,
    <<"N", " ", "5", " ", "C", ":", " ", "9">>,
    <<"x", " ", "C", ":", " ", "9", " ", " ", "D", ":", " ", "2">> }

\* label lists without repetition
LabelLists ==
  UNION { {l \in [1..n -> ScanLabels] : \A i, j \in 1..n : l[i] = l[j] => i = j} :
          n \in 1..MaxLabels }

IsPermutation(q, l) ==
  /\ Len(q) = Len(l)
  /\ {q[i] : i \in 1..Len(q)} = {l[i] : i \in 1..Len(l)}

InitScan ==
  /\ InitParser
  /\ pool = {}
  /\ scan_pc = "start"
  /\ scan_text \in ScanTexts
  /\ scan_labels \in LabelLists
  /\ scan_result = <<>>
  /\ scan_perm = <<>>
  /\ scan_perm_result = <<>>
  /\ IdleAux

Resolve ==
  /\ scan_pc = "start"
  /\ scan_result' = get_text_after_words(scan_text, scan_labels)
  /\ scan_pc' = "resolved"
  /\ UNCHANGED <<scan_text, scan_labels, scan_perm, scan_perm_result>>
  /\ UNCHANGED <<pc, page_number, lines, classes, data, extracted_lines, fields_dict,
                 section_name, section_name_key, subsection_name, extract_key_value,
                 reading_multiple_lines_content, pages_data, pages_pending_lines, raised,
                 nread, pre, last, pool, matched_labels, aux_vars>>

ResolvePermuted(q) ==
  /\ scan_pc = "resolved"
  /\ IsPermutation(q, scan_labels)
  /\ scan_perm' = q
  /\ scan_perm_result' = get_text_after_words(scan_text, q)
  /\ scan_pc' = "done"
  /\ UNCHANGED <<scan_text, scan_labels, scan_result>>
  /\ UNCHANGED <<pc, page_number, lines, classes, data, extracted_lines, fields_dict,
                 section_name, section_name_key, subsection_name, extract_key_value,
                 reading_multiple_lines_content, pages_data, pages_pending_lines, raised,
                 nread, pre, last, pool, matched_labels, aux_vars>>

NextScan ==
  \/ Resolve
  \/ \E q \in LabelLists : ResolvePermuted(q)

SpecScan == InitScan /\ [][NextScan]_vars

(***************************************************************************)
(* _extract_lines_from_page on its own: the words of a page are drawn,     *)
(* sorted, and grouped into lines one word per step.                       *)
(***************************************************************************)
MaxWords == 3

\* y_tolerance as _process_report passes it
YTolerance == 3

WordX0 == {10, SubsectionX0}
WordY0 == {0, 3, 5}
WordTexts == { <<"a">>, <<"b">> }

\* page.get_text("words"): any list of words; id stands for the block, line
\* and word numbers that tell two words of a page apart
PageWords ==
  UNION { {[i \in 1..n |-> [x0 |-> ws[i].x0, y0 |-> ws[i].y0, text |-> ws[i].text,
                            id |-> i]] :
             ws \in [1..n -> [x0 : WordX0, y0 : WordY0, text : WordTexts]]} :
          n \in 0..MaxWords }

Abs(x) == IF x < 0 THEN 0 - x ELSE x

\* as insert_by_y0_x0, were y0 alone the sort key of line 253
insert_by_y0(done, w) ==
  LET before == {i \in 1..Len(done) : done[i].y0 <= w.y0}
      cut == IF before = {} THEN 0 ELSE MaxOf(before)
  IN  SubSeq(done, 1, cut) \o <<w>> \o SubSeq(done, cut + 1, Len(done))

\* w goes into the sorted list done after every entry whose (y0, x0) is <= its own
insert_by_y0_x0(done, w) ==
  LET before == {i \in 1..Len(done) :
                   \/ done[i].y0 < w.y0
                   \/ (done[i].y0 = w.y0 /\ done[i].x0 <= w.x0)}
      cut == IF before = {} THEN 0 ELSE MaxOf(before)
  IN  SubSeq(done, 1, cut) \o <<w>> \o SubSeq(done, cut + 1, Len(done))

\* as sorted_by_y0_x0, were the sort of line 253 left out
sorted_by_y0_x0_unsorted(ws) == ws

\* sorted(words, key=lambda w: (w['y0'], w['x0'])), stable
RECURSIVE sorted_by_y0_x0(_)
sorted_by_y0_x0(ws) ==
  IF ws = <<>> THEN <<>>
  ELSE insert_by_y0_x0(sorted_by_y0_x0(SubSeq(ws, 1, Len(ws) - 1)), ws[Len(ws)])

\* w goes into the sorted list done after every entry whose x0 is <= its own
insert_by_x0(done, w) ==
  LET before == {i \in 1..Len(done) : done[i].x0 <= w.x0}
      cut == IF before = {} THEN 0 ELSE MaxOf(before)
  IN  SubSeq(done, 1, cut) \o <<w>> \o SubSeq(done, cut + 1, Len(done))

\* sorted(current_line, key=lambda w: w['x0']), stable
RECURSIVE sorted_by_x0(_)
sorted_by_x0(ws) ==
  IF ws = <<>> THEN <<>>
  ELSE insert_by_x0(sorted_by_x0(SubSeq(ws, 1, Len(ws) - 1)), ws[Len(ws)])

\* " ".join([w['text'] for w in ws])
RECURSIVE join_texts(_)
join_texts(ws) ==
  IF ws = <<>> THEN <<>>
  ELSE IF Len(ws) = 1 THEN ws[1].text
  ELSE ws[1].text \o <<" ">> \o join_texts(Tail(ws))

\* lines 266-271 and 281-284: the tuple appended for the words of a line
make_line(line) ==
  [text |-> join_texts(sorted_by_x0(line)), x0 |-> line[1].x0, y0 |-> line[1].y0]

\* the loop of lines 259-278 over the sorted words ws from word i on, then
\* lines 280-284; line is current_line, y is current_y, acc is lines
RECURSIVE group_words(_, _, _, _, _)
group_words(ws, i, line, y, acc) ==
  IF i > Len(ws) THEN (IF line # <<>> THEN Append(acc, make_line(line)) ELSE acc)
  ELSE IF y = NoneY THEN group_words(ws, i + 1, Append(line, ws[i]), ws[i].y0, acc)
  ELSE IF Abs(ws[i].y0 - y) <= YTolerance
  THEN group_words(ws, i + 1, Append(line, ws[i]), y, acc)
  ELSE group_words(ws, i + 1, <<ws[i]>>, ws[i].y0, Append(acc, make_line(line)))

\* _extract_lines_from_page for a page whose words are ws (not empty)
extract_lines_from_page(ws) == group_words(sorted_by_y0_x0(ws), 1, <<>>, NoneY, <<>>)

IdleParser == InitParser /\ pool = {}

IdleScan ==
  /\ scan_pc = "idle"
  /\ scan_text = <<>>
  /\ scan_labels = <<>>
  /\ scan_result = <<>>
  /\ scan_perm = <<>>
  /\ scan_perm_result = <<>>

InitLines ==
  /\ IdleParser
  /\ IdleScan
  /\ IdleWeb
  /\ IdleNorm
  /\ IdleProcess
  /\ rec_pc = "start"
  /\ words_raw \in PageWords
  /\ words = <<>>
  /\ rec_i = 0
  /\ current_line = <<>>
  /\ current_y = NoneY
  /\ rec_lines = <<>>
  /\ line_words = <<>>

\* as GetWords, were the test of lines 235-236 left out
GetWords_empty_returns ==
  /\ rec_pc = "start"
  /\ rec_pc' = "loop"
  /\ words' = sorted_by_y0_x0(words_raw)
  /\ rec_i' = 1
  /\ UNCHANGED <<words_raw, current_line, current_y, rec_lines, line_words>>
  /\ UNCHANGED <<parser_vars, scan_vars, web_vars, norm_vars, proc_vars>>

\* lines 232-257: the words are read and sorted; a page without words raises
\* EmptyDocumentError
GetWords ==
  /\ rec_pc = "start"
  /\ IF words_raw = <<>>
     THEN rec_pc' = "raised" /\ UNCHANGED <<words, rec_i>>
     ELSE rec_pc' = "loop" /\ words' = sorted_by_y0_x0(words_raw) /\ rec_i' = 1
  /\ UNCHANGED <<words_raw, current_line, current_y, rec_lines, line_words>>
  /\ UNCHANGED <<parser_vars, scan_vars, web_vars, norm_vars, proc_vars>>

\* as NextWord, were current_y set to the y0 of every word that joins the line
NextWord_moving_reference ==
  /\ rec_pc = "loop"
  /\ rec_i <= Len(words)
  /\ IF current_y = NoneY \/ Abs(words[rec_i].y0 - current_y) <= YTolerance
     THEN /\ current_y' = words[rec_i].y0
          /\ current_line' = Append(current_line, words[rec_i])
          /\ UNCHANGED <<rec_lines, line_words>>
     ELSE /\ rec_lines' = Append(rec_lines, make_line(current_line))
          /\ line_words' = Append(line_words, current_line)
          /\ current_line' = <<words[rec_i]>>
          /\ current_y' = words[rec_i].y0
  /\ rec_i' = rec_i + 1
  /\ UNCHANGED <<rec_pc, words_raw, words>>
  /\ UNCHANGED <<parser_vars, scan_vars, web_vars, norm_vars, proc_vars>>

\* lines 259-278: one iteration of `for word in words`
NextWord ==
  /\ rec_pc = "loop"
  /\ rec_i <= Len(words)
  /\ IF current_y = NoneY
     THEN /\ current_y' = words[rec_i].y0
          /\ current_line' = Append(current_line, words[rec_i])
          /\ UNCHANGED <<rec_lines, line_words>>
     ELSE IF Abs(words[rec_i].y0 - current_y) <= YTolerance
     THEN /\ current_line' = Append(current_line, words[rec_i])
          /\ UNCHANGED <<current_y, rec_lines, line_words>>
     ELSE /\ rec_lines' = Append(rec_lines, make_line(current_line))
          /\ line_words' = Append(line_words, current_line)
          /\ current_line' = <<words[rec_i]>>
          /\ current_y' = words[rec_i].y0
  /\ rec_i' = rec_i + 1
  /\ UNCHANGED <<rec_pc, words_raw, words>>
  /\ UNCHANGED <<parser_vars, scan_vars, web_vars, norm_vars, proc_vars>>

\* as FlushLine, were the words still in current_line not appended
FlushLine_drops_last ==
  /\ rec_pc = "loop"
  /\ rec_i > Len(words)
  /\ rec_pc' = "done"
  /\ UNCHANGED <<words_raw, words, rec_i, current_line, current_y, rec_lines, line_words>>
  /\ UNCHANGED <<parser_vars, scan_vars, web_vars, norm_vars, proc_vars>>

\* lines 280-286: the loop is over, the last line is appended and the lines
\* are returned
FlushLine ==
  /\ rec_pc = "loop"
  /\ rec_i > Len(words)
  /\ rec_pc' = "done"
  /\ IF current_line # <<>>
     THEN /\ rec_lines' = Append(rec_lines, make_line(current_line))
          /\ line_words' = Append(line_words, current_line)
     ELSE UNCHANGED <<rec_lines, line_words>>
  /\ UNCHANGED <<words_raw, words, rec_i, current_line, current_y>>
  /\ UNCHANGED <<parser_vars, scan_vars, web_vars, norm_vars, proc_vars>>

NextLines ==
  \/ GetWords
  \/ NextWord
  \/ FlushLine

SpecLines == InitLines /\ [][NextLines]_vars

(***************************************************************************)
(* TextUtils.normalize on its own: a text is drawn and normalized twice.   *)
(***************************************************************************)
MaxText == 3

NormChars == {"D", "a", " ", "ã", "º", "_", "-", "1"}

DataDeNascimento ==
  <<"D", "a", "t", "a", " ", "d", "e", " ",
    "N", "a", "s", "c", "i", "m", "e", "n", "t", "o">>

NormTexts == UNION { [1..n -> NormChars] : n \in 0..MaxText } \cup {DataDeNascimento}

InitNorm ==
  /\ IdleParser
  /\ IdleScan
  /\ IdleWeb
  /\ IdleLines
  /\ IdleProcess
  /\ norm_pc = "start"
  /\ norm_text \in NormTexts
  /\ norm_once = <<>>
  /\ norm_twice = <<>>

Normalize ==
  /\ norm_pc = "start"
  /\ norm_once' = normalize(norm_text)
  /\ norm_pc' = "once"
  /\ UNCHANGED <<norm_text, norm_twice>>
  /\ UNCHANGED <<parser_vars, scan_vars, web_vars, rec_vars, proc_vars>>

NormalizeAgain ==
  /\ norm_pc = "once"
  /\ norm_twice' = normalize(norm_once)
  /\ norm_pc' = "twice"
  /\ UNCHANGED <<norm_text, norm_once>>
  /\ UNCHANGED <<parser_vars, scan_vars, web_vars, rec_vars, proc_vars>>

NextNorm ==
  \/ Normalize
  \/ NormalizeAgain

SpecNorm == InitNorm /\ [][NextNorm]_vars

(***************************************************************************)
(* SiscanReportExtractor.process: the files of the input directory are     *)
(* taken one per step; _process_report is the function process_report of   *)
(* a document's reconstructed lines.                                       *)
(***************************************************************************)
MaxFiles == 2

\* the loop of lines 426-547 over the lines ls of a page, from line i on
RECURSIVE parse_lines(_, _, _)
parse_lines(ls, i, st) ==
  IF i > Len(ls) \/ st.raised # "" THEN st
  ELSE parse_lines(ls, i + 1, process_line(st, ls[i].text, ls[i].x0))

\* lines 407 and 416-423: the parser state in which a page's loop starts
page_state(extracted) ==
  [fields_dict |-> get_fields, data |-> EmptyData, extracted_lines |-> extracted,
   section_name |-> None, section_name_key |-> <<>>, subsection_name |-> None,
   extract_key_value |-> FALSE, reading_multiple_lines_content |-> FALSE,
   raised |-> "", rules |-> {}, writes |-> <<>>, branch |-> "", matched |-> FALSE,
   clean_line |-> <<>>]

\* lines 549-556: the pending lines of the page, kept when there are some
page_pending(pending_map, n, pending_lines) ==
  IF pending_lines # {}
  THEN [q \in (DOMAIN pending_map) \cup {n} |->
          IF q = n THEN pending_lines ELSE pending_map[q]]
  ELSE pending_map

\* lines 549-556 for a page whose loop ended in state st
page_result(page_lines, n, acc, st) ==
  IF st.raised # "" THEN [acc EXCEPT !.raised = st.raised]
  ELSE [acc EXCEPT !.pages_data = Append(@, st.data),
                   !.extracted_lines = st.extracted_lines,
                   !.pages_pending_lines =
                      page_pending(@, n, {page_lines[i].text : i \in 1..Len(page_lines)}
                                           \ st.extracted_lines)]

\* lines 405-556 for page number n: a page without words raises
\* EmptyDocumentError (line 236)
parse_page(page_lines, n, acc) ==
  IF page_lines = <<>> THEN [acc EXCEPT !.raised = "EmptyDocumentError"]
  ELSE page_result(page_lines, n, acc,
                   parse_lines(page_lines, 1, page_state(acc.extracted_lines)))

\* the loop of line 405 over the page numbers indices, from position k on
RECURSIVE parse_pages(_, _, _, _)
parse_pages(doc, indices, k, acc) ==
  IF k > Len(indices) \/ acc.raised # "" THEN acc
  ELSE parse_pages(doc, indices, k + 1, parse_page(doc[indices[k]], indices[k], acc))

\* lines 399-403, as page numbers: every page, or the selected ones that exist
page_indices(total_pages, selected) ==
  IF selected.none THEN [i \in 1..total_pages |-> i]
  ELSE SelectSeq(selected.pages, LAMBDA q : 1 <= q /\ q <= total_pages)

\* SiscanReportExtractor._process_report for the document doc (its pages'
\* lines): the exception raised if any, else pages_data and pages_pending_lines
process_report(doc, selected) ==
  parse_pages(doc, page_indices(Len(doc), selected), 1,
              [raised |-> "", pages_data |-> <<>>,
               pages_pending_lines |-> [q \in {} |-> {}], extracted_lines |-> {}])

\* DataFrame.empty of pd.DataFrame(pages_data): no row or no column
df_empty(records) ==
  records = <<>> \/ \A i \in 1..Len(records) : DOMAIN records[i] = {}

FileColumn == <<"f", "i", "l", "e">>

\* as frame_rows, were the column assignment of line 641 left out
frame_rows_untagged(records, filename) == records

\* pd.DataFrame(pages_data) after df["file"] = filename: one row per record
frame_rows(records, filename) ==
  [i \in 1..Len(records) |-> data_set(records[i], FileColumn, filename)]

\* str.endswith
endswith(s, suffix) ==
  Len(s) >= Len(suffix) /\ SubSeq(s, Len(s) - Len(suffix) + 1, Len(s)) = suffix

DotPdf == <<".", "p", "d", "f">>

\* PdfUtils.is_pdf_file: the extension, then the first five bytes; a file that
\* cannot be read is no PDF
is_pdf_file(f) ==
  IF ~endswith(lower_all(f.name), DotPdf) THEN FALSE
  ELSE IF ~f.readable THEN FALSE
  ELSE f.header = "%PDF-"

\* a file fitz opens, with the reconstructed lines of its pages
pdf_file(stem, pages) ==
  [name |-> stem \o DotPdf, readable |-> TRUE, header |-> "%PDF-", openable |-> TRUE,
   pages |-> pages]

\* the files a directory can hold: a report of two pages, a PDF without any
\* field, a PDF under another extension, another report, a PDF with a page
\* without words, a PDF with a ':' line at the subsection coordinate, a file
\* that starts as a PDF and that fitz cannot open, a web page named .PDF, and
\* an entry named .pdf that cannot be read
FileA == pdf_file(<<"A">>, << <<TitleP, LineT>>, <<LineA>> >>)
FileB == pdf_file(<<"B">>, << <<LineA>> >>)
FileC == [name |-> <<"C", ".", "t", "x", "t">>, readable |-> TRUE, header |-> "%PDF-",
          openable |-> TRUE, pages |-> << <<TitleP, LineT>> >>]
FileD == pdf_file(<<"D">>, << <<LineEmUF>>, <<TitleP, LineT>> >>)
FileE == pdf_file(<<"E">>, << <<LineEmUF>>, <<>> >>)
FileF == pdf_file(<<"F">>, << <<TitleR, LineK>> >>)
FileG == [name |-> <<"G", ".", "p", "d", "f">>, readable |-> TRUE, header |-> "%PDF-",
          openable |-> FALSE, pages |-> <<>>]
FileH == [name |-> <<"H", ".", "P", "D", "F">>, readable |-> TRUE, header |-> "<html",
          openable |-> FALSE, pages |-> <<>>]
FileI == [name |-> <<"I", ".", "p", "d", "f">>, readable |-> FALSE, header |-> "",
          openable |-> FALSE, pages |-> <<>>]

FilePool == {FileA, FileB, FileC, FileD, FileE, FileF, FileG, FileH, FileI}

\* os.listdir: distinct files in any order
Listings ==
  UNION { {l \in [1..n -> FilePool] : \A i, j \in 1..n : l[i] = l[j] => i = j} :
          n \in 0..MaxFiles }

\* the argument selected_pages: None or a list of page numbers
Selections ==
  { [none |-> TRUE, pages |-> <<>>],
    [none |-> FALSE, pages |-> <<1>>],
    [none |-> FALSE, pages |-> <<2, 1>>],
    [none |-> FALSE, pages |-> <<0, 3>>] }

\* the locals of process when a call starts (lines 616-620)
StartCall ==
  /\ proc_pc = "run"
  /\ file_i = 1
  /\ all_df = <<>>
  /\ all_pages_pending_lines = [f \in {} |-> {}]
  /\ row_origin = <<>>
  /\ skipped = {}
  /\ proc_raised = ""

\* a call of process on a new extractor
InitProcess ==
  /\ IdleParser
  /\ IdleScan
  /\ IdleWeb
  /\ IdleLines
  /\ IdleNorm
  /\ StartCall
  /\ files \in Listings
  /\ selected_pages \in Selections
  /\ self_df = NoDf
  /\ calls = 1
  /\ completed = 0
  /\ df_before = NoDf
  /\ df_access = NoAccess

\* lines 624-626 and 636-638: the loop goes on to the next file
SkipFile(f) ==
  /\ skipped' = skipped \cup {f.name}
  /\ file_i' = file_i + 1
  /\ UNCHANGED <<proc_pc, all_df, all_pages_pending_lines, row_origin, proc_raised>>

\* lines 640-646: the file's rows and pending lines are kept
KeepFile(f, report, indices) ==
  /\ all_pages_pending_lines' =
       [n \in (DOMAIN all_pages_pending_lines) \cup {f.name} |->
          IF n = f.name THEN report.pages_pending_lines ELSE all_pages_pending_lines[n]]
  /\ all_df' = all_df \o frame_rows(report.pages_data, f.name)
  /\ row_origin' = row_origin \o [k \in 1..Len(report.pages_data) |->
                                     [file |-> f.name, page |-> indices[k]]]
  /\ file_i' = file_i + 1
  /\ UNCHANGED <<proc_pc, skipped, proc_raised>>

\* an exception of the loop body leaves process: nothing catches it
RaiseOut(exception) ==
  /\ proc_pc' = "raised"
  /\ proc_raised' = exception
  /\ UNCHANGED <<file_i, all_df, all_pages_pending_lines, row_origin, skipped>>

\* lines 634-646 for the result of _process_report
FileParsed(f, report) ==
  IF report.raised # "" THEN RaiseOut(report.raised)
  ELSE IF df_empty(report.pages_data) THEN SkipFile(f)
  ELSE KeepFile(f, report, page_indices(Len(f.pages), selected_pages))

\* lines 621-646 for the file f: fitz.open raises FileDataError in
\* save_pages_as_individual (pdf_utils.py line 37) on a file it cannot open
FileChecked(f) ==
  IF ~is_pdf_file(f) THEN SkipFile(f)
  ELSE IF ~f.openable THEN RaiseOut("FileDataError")
  ELSE FileParsed(f, process_report(f.pages, selected_pages))

\* lines 620-646: one iteration of the loop over the files
ProcessFile ==
  /\ proc_pc = "run"
  /\ file_i <= Len(files)
  /\ FileChecked(files[file_i])
  /\ UNCHANGED <<files, selected_pages, self_df, calls, completed, df_before, df_access>>
  /\ UNCHANGED <<parser_vars, scan_vars, web_vars, rec_vars, norm_vars>>

\* as ReturnAll, were line 648 left out
ReturnAll_keeps_df ==
  /\ proc_pc = "run"
  /\ file_i > Len(files)
  /\ proc_pc' = "done"
  /\ completed' = completed + 1
  /\ UNCHANGED <<files, selected_pages, file_i, all_df, all_pages_pending_lines,
                 row_origin, skipped, proc_raised, self_df, calls, df_before, df_access>>
  /\ UNCHANGED <<parser_vars, scan_vars, web_vars, rec_vars, norm_vars>>

\* lines 648-658: the loop is over, self._df is set and process returns
ReturnAll ==
  /\ proc_pc = "run"
  /\ file_i > Len(files)
  /\ proc_pc' = "done"
  /\ self_df' = [none |-> FALSE, rows |-> all_df]
  /\ completed' = completed + 1
  /\ UNCHANGED <<files, selected_pages, file_i, all_df, all_pages_pending_lines,
                 row_origin, skipped, proc_raised, calls, df_before, df_access>>
  /\ UNCHANGED <<parser_vars, scan_vars, web_vars, rec_vars, norm_vars>>

NextProcess ==
  \/ ProcessFile
  \/ ReturnAll

SpecProcess == InitProcess /\ [][NextProcess]_vars

(***************************************************************************)
(* One extractor object over several calls of process, with reads of its   *)
(* property df between the calls.                                          *)
(***************************************************************************)
MaxCalls == 2

\* what the input directory holds when a call starts
DfListings ==
  { <<>>, <<FileA>>, <<FileB>>, <<FileD>>, <<FileE>>, <<FileG>>, <<FileA, FileE>>,
    <<FileC, FileD>> }

\* a new extractor (lines 25-29): no call of process was made
InitDf ==
  /\ IdleParser
  /\ IdleScan
  /\ IdleWeb
  /\ IdleLines
  /\ IdleNorm
  /\ IdleProcess

\* process is called (lines 570-620) when no call is running
CallProcess ==
  /\ proc_pc \in {"idle", "done", "raised"}
  /\ calls < MaxCalls
  /\ calls' = calls + 1
  /\ df_before' = self_df
  /\ df_access' = NoAccess
  /\ files' \in DfListings
  /\ selected_pages' \in Selections
  /\ proc_pc' = "run"
  /\ file_i' = 1
  /\ all_df' = <<>>
  /\ all_pages_pending_lines' = [f \in {} |-> {}]
  /\ row_origin' = <<>>
  /\ skipped' = {}
  /\ proc_raised' = ""
  /\ UNCHANGED <<self_df, completed>>
  /\ UNCHANGED <<parser_vars, scan_vars, web_vars, rec_vars, norm_vars>>

\* the property df is read (lines 32-43) when no call is running
AccessDf ==
  /\ proc_pc \in {"idle", "done", "raised"}
  /\ ~df_access.read
  /\ df_access' = IF self_df.none
                   THEN [read |-> TRUE, raised |-> "RuntimeError", rows |-> <<>>]
                   ELSE [read |-> TRUE, raised |-> "", rows |-> self_df.rows]
  /\ UNCHANGED <<proc_pc, files, selected_pages, file_i, all_df, all_pages_pending_lines,
                 row_origin, skipped, proc_raised, self_df, calls, completed, df_before>>
  /\ UNCHANGED <<parser_vars, scan_vars, web_vars, rec_vars, norm_vars>>

NextDf ==
  \/ CallProcess
  \/ ProcessFile
  \/ ReturnAll
  \/ AccessDf

SpecDf == InitDf /\ [][NextDf]_vars

(***************************************************************************)
(* _process_report inside one section: a single page of up to              *)
(* MaxSectionLines lines.                                                  *)
(***************************************************************************)
\* one page of section RESULTADO EXAME, the section with a subsection
\* coordinate: its title, a subsection name, a ':' line at the subsection
\* coordinate, free text and a key:value line
MaxSectionLines == 6

SectionLines == {TitleR, LineM, LineK, LineA, LineT}

InitSection ==
  /\ InitParser
  /\ pool = SectionLines
  /\ IdleScan
  /\ IdleAux

ReadSectionLine(l) ==
  /\ nread < MaxSectionLines
  /\ TakeLine(l)

NextSection == \E l \in pool : ReadSectionLine(l)

SpecSection == InitSection /\ [][NextSection]_vars

(***************************************************************************)
(* The label steps of _process_report on the lines of section PACIENTE: a  *)
(* page made of the title and of lines built from the label "T", a value   *)
(* and spaces.                                                             *)
(***************************************************************************)
MaxLabelLines == 2
MaxLabelText == 5

LabelChars == {"T", "4", " "}

\* a reconstructed line is its words joined by one space (line 283): no
\* space at either end, no two spaces in a row
LabelTexts ==
  {t \in UNION {[1..n -> LabelChars] : n \in 1..MaxLabelText} :
     /\ strip(t) = t
     /\ \A i \in 1..(Len(t) - 1) : ~(IsSpace(t[i]) /\ IsSpace(t[i + 1]))}

LabelLines ==
  {TitleP, LineT, LineEmUF} \cup {[text |-> t, x0 |-> 10] : t \in LabelTexts}

InitLabels ==
  /\ InitParser
  /\ pool = LabelLines
  /\ IdleScan
  /\ IdleAux

\* the page starts with the section title
ReadLabelLine(l) ==
  /\ nread < MaxLabelLines
  /\ nread = 0 <=> l = TitleP
  /\ TakeLine(l)

NextLabels == \E l \in pool : ReadLabelLine(l)

SpecLabels == InitLabels /\ [][NextLabels]_vars

(***************************************************************************)
(* The web application (app.py): the requests of one client session to the *)
(* handlers login, upload and download.                                    *)
(***************************************************************************)
MaxRequests == 3

Secret == <<"s", "3">>

\* os.getenv("TOKEN"): None when the variable is not set
ConfiguredTokens == {None, Secret}

\* request.form.get("token"): None when the form has no such field
FormTokens == {None, <<>>, Secret, <<"x">>}

InitWeb ==
  /\ IdleParser
  /\ IdleScan
  /\ IdleLines
  /\ IdleNorm
  /\ IdleProcess
  /\ TOKEN \in ConfiguredTokens
  /\ logged_in = FALSE
  /\ uploads_processed = 0
  /\ nrequests = 0
  /\ web_request = NoRequest
  /\ web_response = NoResponse
  /\ IdleUploads
  /\ IdleAlterado

\* a request arrives at a handler
Arrives(route, method, token, has_file) ==
  /\ nrequests < MaxRequests
  /\ nrequests' = nrequests + 1
  /\ web_request' = [route |-> route, method |-> method, token |-> token,
                      has_file |-> has_file, logged_in |-> logged_in,
                      uploads_processed |-> uploads_processed]
  /\ UNCHANGED <<TOKEN, up_vars, alt_vars>>
  /\ UNCHANGED <<parser_vars, scan_vars, rec_vars, norm_vars, proc_vars>>

\* login (lines 19-28): a POST whose token equals TOKEN sets the session flag
\* and redirects to upload; any other POST flashes the error, shown by the
\* login page rendered in the same request
login(method, token) ==
  /\ Arrives("login", method, token, FALSE)
  /\ IF method = "POST" /\ token = TOKEN
     THEN /\ logged_in' = TRUE
          /\ web_response' = [kind |-> "redirect:upload", flashed |-> <<>>]
     ELSE /\ web_response' = [kind |-> "login.html.j2",
                               flashed |-> IF method = "POST"
                                           THEN <<"Token incorreto!">> ELSE <<>>]
          /\ UNCHANGED logged_in
  /\ UNCHANGED uploads_processed

\* upload (lines 30-257): without the session flag a redirect to login; with
\* it, a POST that carries a file is processed (ok tells whether the
\* processing returned or raised) and the upload page is rendered
upload(method, has_file, ok) ==
  /\ Arrives("upload", method, None, has_file)
  /\ IF ~logged_in
     THEN /\ web_response' = [kind |-> "redirect:login", flashed |-> <<>>]
          /\ UNCHANGED uploads_processed
     ELSE IF method = "POST" /\ has_file
     THEN /\ uploads_processed' = uploads_processed + 1
          /\ web_response' = [kind |-> IF ok THEN "upload.html.j2" ELSE "error",
                               flashed |-> <<>>]
     ELSE /\ web_response' = [kind |-> "upload.html.j2", flashed |-> <<>>]
          /\ UNCHANGED uploads_processed
  /\ UNCHANGED logged_in

\* download (lines 259-267): without the session flag a redirect to login;
\* with it the file is sent (send_file rejects the keyword attachment_filename
\* in the Flask versions that dropped it: ok tells which)
download(ok) ==
  /\ Arrives("download", "GET", None, FALSE)
  /\ web_response' = [kind |-> IF ~logged_in THEN "redirect:login"
                                ELSE IF ok THEN "file" ELSE "error",
                       flashed |-> <<>>]
  /\ UNCHANGED <<logged_in, uploads_processed>>

NextWeb ==
  \/ \E method \in {"GET", "POST"}, token \in FormTokens : login(method, token)
  \/ \E method \in {"GET", "POST"}, has_file \in BOOLEAN, ok \in BOOLEAN :
        upload(method, has_file, ok)
  \/ \E ok \in BOOLEAN : download(ok)

SpecWeb == InitWeb /\ [][NextWeb]_vars

(***************************************************************************)
(* Uploads handled at the same time: each request runs the steps of        *)
(* ReportService.build_excel on the shared directory tmp.                  *)
(***************************************************************************)
MaxUploads == 2
MaxUploadPages == 2

Requests == 1..MaxUploads

InitUploads ==
  /\ IdleParser
  /\ IdleScan
  /\ IdleLines
  /\ IdleNorm
  /\ IdleProcess
  /\ TOKEN = Secret
  /\ logged_in = TRUE
  /\ uploads_processed = 0
  /\ nrequests = 0
  /\ web_request = NoRequest
  /\ web_response = NoResponse
  /\ up_pc = [r \in Requests |-> "start"]
  /\ up_file \in [Requests -> 1..MaxUploadPages]
  /\ tmp_input = 0
  /\ tmp_pages = NoPages
  /\ up_df = [r \in Requests |-> 0]
  /\ up_links = [r \in Requests |-> NoPages]
  /\ IdleAlterado

\* what a step of request r leaves alone
UploadStep(r, to) ==
  /\ up_pc' = [up_pc EXCEPT ![r] = to]
  /\ UNCHANGED <<up_file, TOKEN, logged_in, uploads_processed, nrequests, web_request,
                 web_response, alt_vars>>
  /\ UNCHANGED <<parser_vars, scan_vars, rec_vars, norm_vars, proc_vars>>

\* lines 45-47: the uploaded file is saved as tmp/input.pdf, over any file
\* of that name
save_file(r) ==
  /\ up_pc[r] = "start"
  /\ tmp_input' = r
  /\ UNCHANGED <<tmp_pages, up_df, up_links>>
  /\ UploadStep(r, "saved")

\* the files of tmp/pages after save_pages_as_individual cut the file of
\* request o: one file per page, named after the page number, over any file
\* of that name
pages_saved(pages, o, total_pages) ==
  [n \in (DOMAIN pages) \cup (1..total_pages) |->
     IF n <= total_pages THEN o ELSE pages[n]]

\* lines 49-53: process reads whatever pdf lies in tmp; without one the
\* dataset is empty and the request fails with ValueError
run_process(r) ==
  /\ up_pc[r] = "saved"
  /\ IF tmp_input = 0
     THEN /\ UNCHANGED <<tmp_pages, up_df>>
          /\ UploadStep(r, "failed")
     ELSE /\ tmp_pages' = pages_saved(tmp_pages, tmp_input, up_file[tmp_input])
          /\ up_df' = [up_df EXCEPT ![r] = tmp_input]
          /\ UploadStep(r, "processed")
  /\ UNCHANGED <<tmp_input, up_links>>

\* lines 79-92 and 148-151: every page file of tmp/pages is moved to the
\* request's folder; the rows of the dataset link to the file moved for their
\* page number
move_pages(r) ==
  /\ up_pc[r] = "processed"
  /\ up_links' = [up_links EXCEPT ![r] =
                    [n \in (DOMAIN tmp_pages) \cap (1..up_file[up_df[r]]) |-> tmp_pages[n]]]
  /\ tmp_pages' = NoPages
  /\ UNCHANGED <<tmp_input, up_df>>
  /\ UploadStep(r, "moved")

\* clear_tmp (line 202): everything in tmp but .keep is deleted
clear_tmp(r) ==
  /\ up_pc[r] = "moved"
  /\ tmp_input' = 0
  /\ tmp_pages' = NoPages
  /\ UNCHANGED <<up_df, up_links>>
  /\ UploadStep(r, "done")

NextUploads ==
  \/ \E r \in Requests : save_file(r)
  \/ \E r \in Requests : run_process(r)
  \/ \E r \in Requests : move_pages(r)
  \/ \E r \in Requests : clear_tmp(r)

SpecUploads == InitUploads /\ [][NextUploads]_vars

(***************************************************************************)
(* The column Alterado (utils/mammography.py and build_excel): a row of    *)
(* the dataset is drawn and classified. "Categoria" is abbreviated "C",    *)
(* "Densa" is "D", "Predominantemente Densa" is "P D" and "Complemento com *)
(* ultrassonografia" is "U S".                                             *)
(***************************************************************************)
MaxCategory == 5

DigitChars == <<"0", "1", "2", "3", "4", "5", "6", "7", "8", "9">>

\* str(n) for n >= 0
RECURSIVE Numeral(_)
Numeral(n) ==
  IF n < 10 THEN <<DigitChars[n + 1]>>
  ELSE Numeral(n \div 10) \o <<DigitChars[(n % 10) + 1]>>

\* str.split(): the words between runs of spaces
RECURSIVE split(_)
split(s) ==
  IF strip(s) = <<>> THEN <<>>
  ELSE IF \A i \in 1..Len(strip(s)) : ~IsSpace(strip(s)[i]) THEN <<strip(s)>>
  ELSE <<SubSeq(strip(s), 1, MinOf({i \in 1..Len(strip(s)) : IsSpace(strip(s)[i])}) - 1)>>
         \o split(SubSeq(strip(s), MinOf({i \in 1..Len(strip(s)) : IsSpace(strip(s)[i])}),
                         Len(strip(s))))

\* the digits of a word after its sign, if it has one
unsigned(word) ==
  IF word # <<>> /\ word[1] \in {"-", "+"} THEN Tail(word) ELSE word

\* int(word) does not raise ValueError: an optional sign, then digits
is_int(word) ==
  unsigned(word) # <<>> /\ \A i \in 1..Len(unsigned(word)) : unsigned(word)[i] \in Digits

RECURSIVE digits_value(_)
digits_value(ds) ==
  IF ds = <<>> THEN 0
  ELSE 10 * digits_value(SubSeq(ds, 1, Len(ds) - 1))
         + (CHOOSE d \in 0..9 : DigitChars[d + 1] = ds[Len(ds)])

\* int(word)
int(word) ==
  IF word[1] = "-" THEN 0 - digits_value(unsigned(word)) ELSE digits_value(unsigned(word))

\* extrair_birads: the second word of the text as an integer, np.nan when
\* there is no second word (IndexError) or it is no integer (ValueError)
extrair_birads(texto) ==
  IF Len(split(texto)) >= 2 /\ is_int(split(texto)[2])
  THEN Number(int(split(texto)[2])) ELSE NaN

Densa == <<"D">>
PredominantementeDensa == <<"P", " ", "D">>
Adiposa == <<"A">>
CategoriaZero == <<"C", " ", "0">>
ComplementoUltrassonografia == <<"U", " ", "S">>

\* str(np.nan), the text of a missing value
NanText == <<"n", "a", "n">>

is_densa(tipo_de_mama) ==
  IF tipo_de_mama \in {PredominantementeDensa, Densa} THEN 1 ELSE 0

\* verificar_usg (lines 42-60)
verificar_usg(row) ==
  IF is_densa(row.tipo_md) = 1 \/ is_densa(row.tipo_me) = 1 THEN 1
  ELSE IF contains(row.md, CategoriaZero) \/ contains(row.me, CategoriaZero) THEN 1
  ELSE IF contains(row.recomendacoes, ComplementoUltrassonografia) THEN 1
  ELSE 0

\* as definir_alterado, were `or usg == 1` left out of line 71
definir_alterado_without_usg(row, md, me, u) ==
  IF (~md.nan /\ md.n >= 4) \/ (~me.nan /\ me.n >= 4) THEN 2
  ELSE IF (~md.nan /\ md.n = 3) \/ (~me.nan /\ me.n = 3) THEN 1
  ELSE 0

\* definir_alterado (lines 64-74); np.nan equals no number
definir_alterado(row, md, me, u) ==
  IF (~md.nan /\ md.n >= 4) \/ (~me.nan /\ me.n >= 4) THEN 2
  ELSE IF (~md.nan /\ md.n = 3) \/ (~me.nan /\ me.n = 3) \/ u = 1 THEN 1
  ELSE 0

\* the texts of a radiological classification: a category with its number
\* and a comment, a missing value, a text without number, a number after
\* another word, a negative number
ClassTexts ==
  {<<"C", " ">> \o Numeral(n) : n \in 0..MaxCategory}
    \cup {<<"C", " ">> \o Numeral(n) \o <<" ", "-", " ", "b">> : n \in 0..MaxCategory}
    \cup {NanText, <<"C">>, <<"C", " ", "x">>, <<"K", " ", "0">>, <<"C", " ", "-", "1">>}

Rows ==
  [md : ClassTexts, me : ClassTexts,
   tipo_md : {Densa, PredominantementeDensa, Adiposa, NanText},
   tipo_me : {Densa, Adiposa},
   recomendacoes : {<<>>, ComplementoUltrassonografia \o <<" ", "x">>}]

InitAlterado ==
  /\ IdleParser
  /\ IdleScan
  /\ IdleLines
  /\ IdleNorm
  /\ IdleProcess
  /\ TOKEN = None
  /\ logged_in = FALSE
  /\ uploads_processed = 0
  /\ nrequests = 0
  /\ web_request = NoRequest
  /\ web_response = NoResponse
  /\ IdleUploads
  /\ alt_pc = "row"
  /\ alt_row \in Rows
  /\ birads_md = NaN
  /\ birads_me = NaN
  /\ usg = 0
  /\ alterado = 0

\* lines 138-143 of build_excel for the row alt_row
ApplyAlterado ==
  /\ alt_pc = "row"
  /\ alt_pc' = "done"
  /\ birads_md' = extrair_birads(alt_row.md)
  /\ birads_me' = extrair_birads(alt_row.me)
  /\ usg' = verificar_usg(alt_row)
  /\ alterado' = definir_alterado(alt_row, extrair_birads(alt_row.md),
                                  extrair_birads(alt_row.me), verificar_usg(alt_row))
  /\ UNCHANGED <<alt_row, TOKEN, logged_in, uploads_processed, nrequests, web_request,
                 web_response, up_vars>>
  /\ UNCHANGED <<parser_vars, scan_vars, rec_vars, norm_vars, proc_vars>>

NextAlterado == ApplyAlterado

SpecAlterado == InitAlterado /\ [][NextAlterado]_vars

(***************************************************************************)
(* Properties of the parser (specification Spec)                           *)
(***************************************************************************)
PageOver == pc \in {"page_end", "done"}
LineRead == last.branch # ""
LastText == strip(last.text)
IsTitleRead ==
  LineRead /\ LastText \in DOMAIN get_sections_all /\ LastText \notin get_ignore_lines
Consumed(i) == classes[i] \ {"pending"} # {}
Separator == <<"_", "_">>

\* C1: when a page's parse ends, every line of the page that no rule consumed
\* has its text in PendingLines[page], whatever lines were consumed elsewhere
\* on the page or on earlier pages.
C1_UnconsumedLinesArePending ==
  PageOver =>
    \A i \in 1..Len(lines) :
      ~Consumed(i) =>
        /\ page_number \in DOMAIN pages_pending_lines
        /\ lines[i].text \in pages_pending_lines[page_number]

\* C2: when a page's parse ends, each line of the page is in exactly one of the
\* classes ignored, section, field, subsection marker, continuation, pending.
C2_ExactlyOneClass ==
  PageOver => \A i \in 1..Len(lines) : Cardinality(classes[i]) = 1

C3_Values == { <<"4">> }

C3_Page(S, L, v) ==
  /\ PageOver
  /\ Len(lines) = 2
  /\ lines[1].text = S
  /\ lines[2].text = L \o <<":", " ">> \o v

\* C3: a page made of a section title S and a line "L: v", L a section-scoped
\* label of S declared without ':', gives Record[normalize(S)__normalize(L)] = v
\* and no pending line when every line matched a rule.
C3_SectionLabelValue ==
  \A S \in (DOMAIN get_fields) \ {None} :
    \A n \in 1..Len(get_fields[S]) :
      \A v \in C3_Values :
        LET L == get_fields[S][n]
        IN  (L[Len(L)] # ":" /\ C3_Page(S, L, v)) =>
              /\ data_get(data, normalize(S) \o Separator \o normalize(L)) = v
              /\ (\A i \in 1..Len(lines) : Consumed(i)) =>
                    page_number \notin DOMAIN pages_pending_lines

C3_Witness ==
  /\ C3_Page(PACIENTE, <<"T">>, <<"4">>)
  /\ data_get(data, <<"p", "_", "_", "t">>) = <<"4">>
  /\ \A i \in 1..Len(lines) : Consumed(i)

\* C4: after a section title S is read, in any parser state, currentSection is
\* S, keyPrefix is normalize(S)__ and the continuation flag is cleared.
C4_TitleResetsPrefix ==
  IsTitleRead =>
    /\ section_name = LastText
    /\ section_name_key = normalize(LastText) \o Separator
    /\ ~reading_multiple_lines_content

C4_Witness ==
  /\ IsTitleRead
  /\ pre.reading_multiple_lines_content
  /\ pre.section_name_key # normalize(LastText) \o Separator
  /\ section_name_key = normalize(LastText) \o Separator

\* C5: after a section title is read, currentSubsection is empty.
C5_TitleClearsSubsection ==
  IsTitleRead => subsection_name = None

\* an unlabeled line: not ignored, no title, no working or declared label in it,
\* no key:value pair, not on the subsection x coordinate
C6_Unlabeled ==
  /\ LineRead
  /\ raised = ""
  /\ pre.section_name # None
  /\ LastText \notin get_ignore_lines
  /\ LastText \notin DOMAIN get_sections_all
  /\ \A k \in {None, pre.section_name} :
       \A i \in 1..Len(fields_get(pre.fields_dict, k)) :
         ~contains(LastText, fields_get(pre.fields_dict, k)[i])
  /\ \A i \in 1..Len(get_sections_all[pre.section_name].fields) :
       ~contains(LastText, get_sections_all[pre.section_name].fields[i])
  /\ extract_key_value_pairs(LastText) = <<>>
  /\ last.x0 # get_sections_all[pre.section_name].subsections_coordinate_x0

C6_Key == rstrip(pre.section_name_key, "_")

\* C6: an unlabeled line read under an unresolved key K becomes Record[K] when
\* K holds no value, and extends Record[K] by "; " + line when it holds one
\* (so lines a, b leave "a; b", and a further line c adds "; c").
C6_UnlabeledLinesAccumulate ==
  (C6_Unlabeled /\ ~pre.extract_key_value) =>
    /\ C6_Key \in DOMAIN data
    /\ data[C6_Key] = IF data_get(pre.data, C6_Key) = None THEN LastText
                      ELSE pre.data[C6_Key] \o <<";", " ">> \o LastText

C6_Witness ==
  /\ C6_Unlabeled
  /\ ~pre.extract_key_value
  /\ Len(lines) = 4
  /\ data_get(data, <<"p">>) = <<"a", ";", " ", "M", ";", " ", "a">>

\* the label text removed from the line for the write w (lines 352-357)
C9_Removed(w) ==
  IF list_has(fields_get(pre.fields_dict, w.section), w.field \o <<":">>)
  THEN w.field \o <<":">> ELSE w.field

\* the trimmed line without the labels and values of the first i label writes
RECURSIVE C9_Remainder(_)
C9_Remainder(i) ==
  IF i = 0 THEN LastText
  ELSE LET w == last.writes[i]
           r == C9_Remainder(i - 1)
           r1 == IF truthy(w.value) THEN strip(replace(r, w.value)) ELSE r
       IN  strip(replace(r1, C9_Removed(w)))

\* C9 (as stated): a label whose positional value contains ':' is written with
\* the first pair's value of the key:value extractor run on the whole line.
C9_OverrideFromWholeLine ==
  LineRead =>
    \A i \in 1..Len(last.writes) :
      last.writes[i].override =>
        LET pairs == extract_key_value_pairs(LastText)
        IN  pairs # <<>> /\ last.writes[i].value = pairs[1].value

\* C9 (amended): the extractor is run on what is left of the line once the
\* labels and values matched before this label were removed.
C9_OverrideFromRemainder ==
  LineRead =>
    \A i \in 1..Len(last.writes) :
      last.writes[i].override =>
        LET pairs == extract_key_value_pairs(C9_Remainder(i - 1))
        IN  /\ pairs # <<>>
            /\ last.writes[i].value = pairs[1].value
            /\ data_get(data, last.writes[i].key) = pairs[1].value

C9_Witness ==
  /\ LineRead
  /\ Len(last.writes) = 2
  /\ last.writes[2].override
  /\ C9_Remainder(1) # LastText
  /\ last.writes[2].value = <<"p">>

GeralKey(G) == <<"g", "e", "r", "a", "l", "_", "_">> \o normalize(G)

C10_GlobalLabelsIn(text) ==
  {fields_get(pre.fields_dict, None)[i] : i \in
     {j \in 1..Len(fields_get(pre.fields_dict, None)) :
        contains(text, fields_get(pre.fields_dict, None)[j])}}

\* C10: in every parser state, a line that is no ignore line and no title and
\* holds a still-unmatched global label G has G written under geral__normalize(G)
\* and under no other key.
C10_GlobalLabelUnderGeral ==
  (LineRead /\ LastText \notin get_ignore_lines /\ LastText \notin DOMAIN get_sections_all) =>
    \A G \in C10_GlobalLabelsIn(LastText) :
      /\ GeralKey(G) \in DOMAIN data
      /\ \E i \in 1..Len(last.writes) : last.writes[i].field = rstrip(G, ":")
      /\ \A i \in 1..Len(last.writes) :
           last.writes[i].field = rstrip(G, ":") =>
             /\ last.writes[i].key = GeralKey(G)
             /\ data[GeralKey(G)] = last.writes[i].value
      /\ \A k \in (DOMAIN data) \ (DOMAIN pre.data) :
           k # GeralKey(G) =>
             \/ \E H \in C10_GlobalLabelsIn(LastText) : k = GeralKey(H)
             \/ \A n \in 1..Len(k) : SubSeq(k, n, Len(k)) # normalize(G)

C10_Witness ==
  /\ LineRead
  /\ pre.reading_multiple_lines_content
  /\ pre.section_name # None
  /\ C10_GlobalLabelsIn(LastText) # {}
  /\ GeralKey(<<"E", "m", ":">>) \in DOMAIN data

(***************************************************************************)
(* Properties of get_text_after_words (specification SpecScan)             *)
(***************************************************************************)
AsMap(d) == [k \in dict_keys(d) |-> dict_get(d, k)]

ScanFound == {i \in 1..Len(scan_labels) : contains(scan_text, scan_labels[i])}
ScanStart(i) == find(scan_text, scan_labels[i])
ScanEnd(i) == ScanStart(i) + Len(scan_labels[i])
ScanAfter(i) ==
  {j \in ScanFound :
     ScanStart(j) > ScanStart(i) \/ (ScanStart(j) = ScanStart(i) /\ j > i)}
ScanNextStart(i) ==
  IF ScanAfter(i) = {} THEN Len(scan_text)
  ELSE MinOf({ScanStart(j) : j \in ScanAfter(i)})
ScanValue(i) ==
  LET v == strip(Sub(scan_text, ScanEnd(i), ScanNextStart(i)))
  IN  IF v = <<>> THEN None ELSE v
ScanKey(i) == rstrip(scan_labels[i], ":")

\* C7: for a label list whose labels all occur in the line, every permutation
\* of the list resolves to the same mapping.
C7_PermutationInvariant ==
  (scan_pc = "done" /\ ScanFound = 1..Len(scan_labels)) =>
    AsMap(scan_perm_result) = AsMap(scan_result)

\* C8: the result has an entry for exactly the labels found (keyed without the
\* trailing colon); with the found labels in order of start offset, each value
\* is the trimmed text between the label's end and the next label's start (the
\* end of the line for the last one), None when that text is empty.
C8_ValuesBetweenLabels ==
  scan_pc # "start" =>
    /\ dict_keys(scan_result) = {ScanKey(i) : i \in ScanFound}
    /\ \A i \in ScanFound : dict_get(scan_result, ScanKey(i)) = ScanValue(i)
    /\ \A n \in 1..Len(scan_result) : scan_result[n].value # <<>>

C8_Witness ==
  /\ scan_pc = "resolved"
  /\ Len(scan_labels) = 3
  /\ Cardinality(ScanFound) = 3
  /\ \E i, j \in ScanFound : i < j /\ ScanStart(j) < ScanStart(i)
  /\ \A i \in ScanFound : dict_get(scan_result, ScanKey(i)) # None

(***************************************************************************)
(* Properties of the working label set (specification Spec)                *)
(***************************************************************************)
PageStart == pc = "page" /\ lines = <<>>

\* the first line of a page was read and is neither an ignore line nor a title
FirstLineRead ==
  /\ LineRead
  /\ Len(lines) = 1
  /\ LastText \notin get_ignore_lines
  /\ LastText \notin DOMAIN get_sections_all

\* the global labels declared by get_fields that occur in text
DeclaredGlobalLabelsIn(text) ==
  {get_fields[None][i] : i \in {j \in 1..Len(get_fields[None]) :
                                  contains(text, get_fields[None][j])}}

\* C11: at the start of every page's parse the working label set is the full
\* declared one, so a declared global label occurring on the first line read
\* of any page is matched there, whatever was matched on earlier pages.
C11_FreshLabelsPerPage ==
  /\ PageStart => fields_dict = get_fields
  /\ FirstLineRead =>
       \A G \in DeclaredGlobalLabelsIn(LastText) :
         \E i \in 1..Len(last.writes) :
           /\ last.writes[i].section = None
           /\ last.writes[i].field = rstrip(G, ":")

C11_Witness ==
  /\ FirstLineRead
  /\ page_number = 2
  /\ Len(last.writes) > 0
  /\ last.writes[1].key \in DOMAIN pages_data[1]
  /\ last.writes[1].key \in DOMAIN data

SameLabel(m, n) == m.section = n.section /\ m.field = n.field

\* C12 (as stated): no label is matched twice by the label steps during one
\* document's parse.
C12_MatchedOncePerDocument ==
  \A i, j \in 1..Len(matched_labels) :
    SameLabel(matched_labels[i], matched_labels[j]) => i = j

\* C12 (amended): a label matched on a page is out of the page's working
\* label set and is not matched again on that page.
C12_MatchedOncePerPage ==
  /\ \A i, j \in 1..Len(matched_labels) :
       (/\ SameLabel(matched_labels[i], matched_labels[j])
        /\ matched_labels[i].page = matched_labels[j].page) => i = j
  /\ \A i \in 1..Len(matched_labels) :
       matched_labels[i].page = page_number =>
         /\ ~list_has(fields_get(fields_dict, matched_labels[i].section),
                      matched_labels[i].field)
         /\ ~list_has(fields_get(fields_dict, matched_labels[i].section),
                      matched_labels[i].field \o <<":">>)

\* a line holding labels already matched on its page is read on page 2 and
\* matches none, while the same labels were matched on both pages
C12_Witness ==
  /\ LineRead
  /\ page_number = 2
  /\ DeclaredGlobalLabelsIn(LastText) # {}
  /\ last.writes = <<>>
  /\ \E i, j \in 1..Len(matched_labels) :
       /\ SameLabel(matched_labels[i], matched_labels[j])
       /\ matched_labels[i].page = 1
       /\ matched_labels[j].page = 2

\* C13: the parse of a page that has lines never raises: a raise can only be
\* the EmptyDocumentError of a page without words.
C13_PageParseNeverRaises ==
  pc = "raised" => raised = "EmptyDocumentError"

(***************************************************************************)
(* Properties of _extract_lines_from_page (specification SpecLines)        *)
(***************************************************************************)
LinesDone == rec_pc = "done"

\* the places (line, position) of the words that went into the lines
WordPlaces ==
  UNION { {<<n, m>> : m \in 1..Len(line_words[n])} : n \in 1..Len(line_words) }

\* how often the text t is a word of the string text
TextCount(text, t) == Cardinality({m \in 1..Len(text) : <<text[m]>> = t})

\* C14: every word of the page is in exactly one reconstructed line, and a
\* line's text holds the texts of its words, each as often as the line has it.
C14_WordsConserved ==
  LinesDone =>
    /\ \A k \in 1..Len(words_raw) :
         Cardinality({p \in WordPlaces : line_words[p[1]][p[2]] = words_raw[k]}) = 1
    /\ Cardinality(WordPlaces) = Len(words_raw)
    /\ \A n \in 1..Len(rec_lines) :
         \A t \in WordTexts :
           TextCount(rec_lines[n].text, t)
             = Cardinality({m \in 1..Len(line_words[n]) : line_words[n][m].text = t})

C14_Witness ==
  /\ LinesDone
  /\ Len(words_raw) = 3
  /\ Len(rec_lines) = 2
  /\ \E n \in 1..2 : Len(line_words[n]) = 2

\* C15: the lines are produced in non-decreasing y0 order.
C15_LinesTopToBottom ==
  \A n \in 1..(Len(rec_lines) - 1) : rec_lines[n].y0 <= rec_lines[n + 1].y0

C15_Witness ==
  /\ LinesDone
  /\ Len(rec_lines) >= 2
  /\ words_raw[1].y0 > words_raw[2].y0
  /\ rec_lines[1].y0 < rec_lines[2].y0

\* C16: a line's x0 and y0 are those of its leftmost word, and its text is
\* the space-joined texts of its words in ascending x0 order.
C16_LeftmostWord ==
  \A n \in 1..Len(rec_lines) :
    /\ \E m \in 1..Len(line_words[n]) :
         /\ \A q \in 1..Len(line_words[n]) : line_words[n][m].x0 <= line_words[n][q].x0
         /\ rec_lines[n].x0 = line_words[n][m].x0
         /\ rec_lines[n].y0 = line_words[n][m].y0
    /\ rec_lines[n].text = join_texts(sorted_by_x0(line_words[n]))

RECURSIVE Flatten(_)
Flatten(ls) == IF ls = <<>> THEN <<>> ELSE Head(ls) \o Flatten(Tail(ls))

\* the line being built included (at the end it is the last line appended)
AllLineWords ==
  IF current_line = <<>> \/ LinesDone THEN line_words ELSE Append(line_words, current_line)

\* C17: the words are taken in (y0, x0) order; a word joins the current line
\* if and only if its y0 is within yTolerance of the y0 of the line's first
\* word, which is the reference for the whole line.
C17_JoinWithinTolerance ==
  /\ rec_pc \in {"loop", "done"} => Flatten(AllLineWords) = SubSeq(words, 1, rec_i - 1)
  /\ current_line # <<>> => current_y = current_line[1].y0
  /\ \A n \in 1..Len(AllLineWords) :
       \A m \in 1..Len(AllLineWords[n]) :
         Abs(AllLineWords[n][m].y0 - AllLineWords[n][1].y0) <= YTolerance
  /\ \A n \in 1..(Len(AllLineWords) - 1) :
       Abs(AllLineWords[n + 1][1].y0 - AllLineWords[n][1].y0) > YTolerance

\* a word within yTolerance of its predecessor started a new line
C17_Witness ==
  /\ LinesDone
  /\ Len(line_words) = 2
  /\ Len(line_words[1]) = 2
  /\ Abs(line_words[2][1].y0 - line_words[1][2].y0) <= YTolerance
  /\ Abs(line_words[2][1].y0 - line_words[1][1].y0) > YTolerance

(***************************************************************************)
(* Properties of TextUtils.normalize (specification SpecNorm)              *)
(***************************************************************************)
\* C18: normalize(normalize(s)) = normalize(s), and
\* normalize("Data de Nascimento") = "data_de_nascimento".
C18_NormalizeIdempotent ==
  /\ norm_pc = "twice" => norm_twice = norm_once
  /\ (norm_pc # "start" /\ norm_text = DataDeNascimento) =>
       norm_once = <<"d", "a", "t", "a", "_", "d", "e", "_",
                     "n", "a", "s", "c", "i", "m", "e", "n", "t", "o">>

C18_Witness ==
  /\ norm_pc = "twice"
  /\ norm_text = <<"D", " ", "ã">>
  /\ norm_once = <<"d", "_", "a">>
  /\ norm_twice = <<"d", "_", "a">>

(***************************************************************************)
(* Properties of process (specification SpecProcess)                       *)
(***************************************************************************)
\* the files the loop has gone through
FilesTaken == 1..(file_i - 1)

\* the (file, page) of the records expected of the i-th file
ExpectedOrigin(f, indices) ==
  IF f.name \in skipped THEN <<>>
  ELSE [k \in 1..Len(indices) |-> [file |-> f.name, page |-> indices[k]]]

ExpectedOrigins ==
  Flatten([i \in FilesTaken |->
             ExpectedOrigin(files[i], page_indices(Len(files[i].pages), selected_pages))])

\* C19: for every document that is not skipped the dataset holds exactly one
\* record per processed page (the selected pages that exist, or all pages), in
\* processing order, and every record's file attribute is the name of its
\* source document.
C19_OneRecordPerPage ==
  /\ row_origin = ExpectedOrigins
  /\ Len(all_df) = Len(row_origin)
  /\ \A r \in 1..Len(all_df) :
       /\ FileColumn \in DOMAIN all_df[r]
       /\ all_df[r][FileColumn] = row_origin[r].file

\* two documents read with selected_pages = [2, 1]: four records, page 2 first
C19_Witness ==
  /\ proc_pc = "done"
  /\ files = <<FileD, FileA>>
  /\ selected_pages = [none |-> FALSE, pages |-> <<2, 1>>]
  /\ Len(all_df) = 4
  /\ row_origin[1] = [file |-> FileD.name, page |-> 2]
  /\ all_df[2][FileColumn] = FileD.name
  /\ all_df[3][FileColumn] = FileA.name

\* C20: after process the pending-lines map has an entry, under the file's
\* name, for every valid PDF that was parsed, holding its per-page pending
\* lines, documents whose pages yielded no record field included.
C20_PendingEntryPerDocument ==
  proc_pc = "done" =>
    \A i \in 1..Len(files) :
      is_pdf_file(files[i]) =>
        /\ files[i].name \in DOMAIN all_pages_pending_lines
        /\ all_pages_pending_lines[files[i].name]
             = process_report(files[i].pages, selected_pages).pages_pending_lines

\* fitz opens the file and is_pdf_file accepts it
WellFormed(f) == is_pdf_file(f) /\ f.openable

\* C21: a document of the input set that is not a well-formed PDF is skipped
\* without raising, and the other documents are still processed: process is
\* never left by an exception at a file that is no well-formed PDF.
C21_InvalidSourceSkipped ==
  /\ proc_pc = "raised" => WellFormed(files[file_i])
  /\ \A i \in FilesTaken : ~WellFormed(files[i]) => files[i].name \in skipped

\* C23: an EmptyDocument failure on one page does not abort the run: process
\* is not left by EmptyDocumentError.
C23_EmptyPageDoesNotAbort ==
  proc_pc = "raised" => proc_raised # "EmptyDocumentError"

C22_NoWordsRaises ==
  /\ (rec_pc # "start" /\ words_raw = <<>>) => (rec_pc = "raised" /\ rec_lines = <<>>)
  /\ rec_pc = "raised" => words_raw = <<>>

C22_Witness ==
  /\ rec_pc = "raised"
  /\ words_raw = <<>>
  /\ rec_lines = <<>>

(***************************************************************************)
(* Properties of the web session (specification SpecWeb)                   *)
(***************************************************************************)
LoginPost == web_request.route = "login" /\ web_request.method = "POST"

\* C26: the session becomes logged in only by a login POST whose token equals
\* TOKEN; a login POST with another token, or with none, leaves the session as
\* it was and shows the login page with the error 'Token incorreto!'; upload
\* and download process nothing and redirect to login without the session flag.
C26_LoginOnlyByToken ==
  /\ (logged_in /\ ~web_request.logged_in) => (LoginPost /\ web_request.token = TOKEN)
  /\ (LoginPost /\ (web_request.token = None \/ web_request.token # TOKEN)) =>
       /\ logged_in = web_request.logged_in
       /\ web_response = [kind |-> "login.html.j2", flashed |-> <<"Token incorreto!">>]
  /\ (web_request.route \in {"upload", "download"} /\ ~web_request.logged_in) =>
       /\ web_response.kind = "redirect:login"
       /\ uploads_processed = web_request.uploads_processed
       /\ ~logged_in

(***************************************************************************)
(* Properties of ignore lines (specification Spec)                         *)
(***************************************************************************)
IgnoreLineRead == LineRead /\ LastText \in get_ignore_lines

\* the parser state a line can change, as a record like pre
ParseStateNow ==
  [section_name |-> section_name, section_name_key |-> section_name_key,
   subsection_name |-> subsection_name, extract_key_value |-> extract_key_value,
   reading_multiple_lines_content |-> reading_multiple_lines_content,
   data |-> data, fields_dict |-> fields_dict]

\* C24: a line whose trimmed text is an ignore line is marked consumed and
\* changes nothing else: section, subsection, key prefix, continuation flags,
\* working label set and record are after the line what they were before it.
C24_IgnoreLineChangesNothing ==
  IgnoreLineRead =>
    /\ last.text \in extracted_lines
    /\ ParseStateNow = pre
    /\ last.writes = <<>>
    /\ raised = ""

\* an ignore line read inside a section while a value is being continued
C24_Witness ==
  /\ IgnoreLineRead
  /\ pre.section_name = PACIENTE
  /\ pre.reading_multiple_lines_content
  /\ pre.data # EmptyData
  /\ reading_multiple_lines_content

(***************************************************************************)
(* Properties of subsections and continued values (specification            *)
(* SpecSection)                                                            *)
(***************************************************************************)
SectionCoordinate(S) == get_sections_all[S].subsections_coordinate_x0

\* text is no ignore line and no section title
PlainText(text) == text \notin get_ignore_lines /\ text \notin DOMAIN get_sections_all

\* no label of the label dictionary fd, global or of section S, and no
\* declared field of S occurs in text
NoLabelIn(text, S, fd) ==
  /\ \A k \in {None, S} :
       \A i \in 1..Len(fields_get(fd, k)) : ~contains(text, fields_get(fd, k)[i])
  /\ \A i \in 1..Len(get_sections_all[S].fields) :
       ~contains(text, get_sections_all[S].fields[i])

\* the line read is at the subsection coordinate of the current section and
\* no earlier rule (ignore line, title, labels) takes it
SubsectionLineRead ==
  /\ LineRead
  /\ pre.section_name # None
  /\ SectionCoordinate(pre.section_name) # 0
  /\ last.x0 = SectionCoordinate(pre.section_name)
  /\ PlainText(LastText)
  /\ NoLabelIn(LastText, pre.section_name, pre.fields_dict)

\* the line read is off the subsection coordinate, inside a section, and no
\* earlier rule takes it
InnerLineRead ==
  /\ LineRead
  /\ raised = ""
  /\ pre.section_name # None
  /\ last.x0 # SectionCoordinate(pre.section_name)
  /\ PlainText(LastText)
  /\ NoLabelIn(LastText, pre.section_name, pre.fields_dict)

\* the line before the last one, trimmed
PrevText == strip(lines[Len(lines) - 1].text)

\* the line before the last one was at the subsection coordinate of the
\* current section, and no earlier rule took it
AfterSubsectionLine ==
  /\ Len(lines) >= 2
  /\ pre.section_name # None
  /\ SectionCoordinate(pre.section_name) # 0
  /\ lines[Len(lines) - 1].x0 = SectionCoordinate(pre.section_name)
  /\ PlainText(PrevText)
  /\ NoLabelIn(PrevText, pre.section_name, get_fields)

SectionPrefix == normalize(pre.section_name) \o Separator

\* C27: in a section S with a subsection coordinate, a line at that coordinate
\* without ':' becomes the current subsection and the key prefix becomes
\* normalize(S)__normalize(line)__ whatever it was before; the pairs of a
\* key:value line read next are written under that prefix.
C27_SubsectionResetsPrefix ==
  /\ (SubsectionLineRead /\ ~contains(LastText, <<":">>)) =>
       /\ raised = ""
       /\ subsection_name = LastText
       /\ section_name_key = SectionPrefix \o normalize(LastText) \o Separator
  /\ (AfterSubsectionLine /\ ~contains(PrevText, <<":">>) /\ InnerLineRead) =>
       \A i \in 1..Len(extract_key_value_pairs(LastText)) :
         data_get(data, SectionPrefix \o normalize(PrevText) \o Separator
                          \o normalize(extract_key_value_pairs(LastText)[i].key))
           = extract_key_value_pairs(LastText)[i].value

\* a subsection name read after a ':' line had deepened the prefix, then a field
C27_Witness ==
  /\ lines = <<TitleR, LineM, LineK, LineM, LineT>>
  /\ pre.section_name_key = <<"r", "_", "e", "_", "_", "m", "_", "_">>
  /\ data_get(data, <<"r", "_", "e", "_", "_", "m", "_", "_", "t">>) = <<"4">>
  /\ <<"r", "_", "e", "_", "_", "m", "_", "_", "k", "_", "_", "t">> \notin DOMAIN data

\* the key under which C28 puts the unlabeled line after a ':' subsection line
C28_Key ==
  SectionPrefix \o normalize(pre.subsection_name) \o Separator
    \o normalize(replace(PrevText, <<":">>))

C28_UnlabeledAfterColonLine ==
  /\ AfterSubsectionLine
  /\ contains(PrevText, <<":">>)
  /\ pre.subsection_name # None
  /\ InnerLineRead
  /\ extract_key_value_pairs(LastText) = <<>>

\* the prefix set by a ':' line at the subsection coordinate
C28_ColonLinePrefix ==
  (SubsectionLineRead /\ contains(LastText, <<":">>) /\ pre.subsection_name # None) =>
    /\ raised = ""
    /\ section_name_key = SectionPrefix \o normalize(pre.subsection_name) \o Separator
                             \o normalize(replace(LastText, <<":">>)) \o Separator

\* C28 (as stated): in section S with subsection U, a ':' line at the
\* subsection coordinate sets the prefix to normalize(S)__normalize(U)__ plus
\* the normalized line without ':', and an unlabeled line v that follows is
\* stored as Record[that key] = v.
C28_ColonLineScopedValue ==
  /\ C28_ColonLinePrefix
  /\ C28_UnlabeledAfterColonLine => data_get(data, C28_Key) = LastText

\* C28 (amended): v is the value of the key when the key held none, and is
\* appended to the value after "; " when the key held one.
C28_ColonLineScopedContent ==
  /\ C28_ColonLinePrefix
  /\ C28_UnlabeledAfterColonLine =>
       data_get(data, C28_Key) =
         IF data_get(pre.data, C28_Key) = None THEN LastText
         ELSE pre.data[C28_Key] \o <<";", " ">> \o LastText

\* the same ':' line read twice under one subsection, each followed by text
C28_Witness ==
  /\ lines = <<TitleR, LineM, LineK, LineA, LineK, LineA>>
  /\ data_get(data, <<"r", "_", "e", "_", "_", "m", "_", "_", "k">>)
       = <<"a", ";", " ", "a">>

\* the line read was taken as a nested key segment (lines 538-546)
NestedLineRead == LineRead /\ last.branch \in {"subsection", "nested"}

\* C29: whenever a line is taken as a nested key segment, the key prefix is
\* extended by normalize(line)__ and the multi-line continuation flag is
\* cleared.
C29_NestedClearsContinuation ==
  NestedLineRead =>
    /\ endswith(section_name_key,
                normalize(IF last.branch = "subsection" THEN replace(LastText, <<":">>)
                          ELSE LastText) \o Separator)
    /\ ~reading_multiple_lines_content

\* the key under which an unlabeled line is stored
ContinuedKey == rstrip(pre.section_name_key, "_")

\* C30: while the continuation flag is set no line is extracted by the
\* declared-field scan or the key:value extractor; a 'label: value' line off
\* the subsection coordinate that matches no working label is kept as raw
\* text under the key being continued; the flag is cleared only by a section
\* title or by a line without ':' at the subsection coordinate.
C30_ContinuationKeepsRawText ==
  (LineRead /\ pre.reading_multiple_lines_content) =>
    /\ last.branch \notin {"fields", "key_value"}
    /\ ~pre.extract_key_value
    /\ (InnerLineRead /\ extract_key_value_pairs(LastText) # <<>>) =>
         /\ data_get(data, ContinuedKey) =
              IF data_get(pre.data, ContinuedKey) = None THEN LastText
              ELSE pre.data[ContinuedKey] \o <<";", " ">> \o LastText
         /\ DOMAIN data = (DOMAIN pre.data) \cup {ContinuedKey}
         /\ \A k \in (DOMAIN pre.data) \ {ContinuedKey} : data[k] = pre.data[k]
         /\ reading_multiple_lines_content
    /\ (raised = "" /\ ~reading_multiple_lines_content) =>
         \/ LastText \in DOMAIN get_sections_all
         \/ /\ last.x0 = SectionCoordinate(pre.section_name)
            /\ ~contains(subsection_name, <<":">>)
            /\ last.branch = "subsection"

C30_Witness ==
  /\ lines = <<TitleR, LineA, LineA, LineT>>
  /\ pre.reading_multiple_lines_content
  /\ data_get(data, <<"r", "_", "e">>)
       = <<"a", ";", " ", "a", ";", " ", "T", ":", " ", "4">>
  /\ DOMAIN data = {<<"r", "_", "e">>}

(***************************************************************************)
(* Properties of the key prefix inside a section (specification            *)
(* SpecSection)                                                            *)
(***************************************************************************)
\* the line before the last one was a section title
AfterTitle ==
  /\ Len(lines) >= 2
  /\ PrevText \in DOMAIN get_sections_all
  /\ PrevText \notin get_ignore_lines

\* the line read is free text: off the subsection coordinate, taken by no
\* earlier rule, and without a key:value pair
UnlabeledLineRead == InnerLineRead /\ extract_key_value_pairs(LastText) = <<>>

\* C31: the first unlabeled line v read after a section title S is stored as
\* Record[normalize(S)] = v, whatever lines were read on the page before the
\* title.
C31_FirstLineUnderSectionKey ==
  (AfterTitle /\ UnlabeledLineRead) =>
    data_get(data, normalize(PrevText)) = LastText

startswith(s, prefix) ==
  Len(s) >= Len(prefix) /\ SubSeq(s, 1, Len(prefix)) = prefix

\* the line read had its key:value pairs or declared fields written (lines
\* 497-505)
PairsLineRead == LineRead /\ last.branch \in {"fields", "key_value"}

\* C32: inside a section the key prefix ends with '__' whenever a line starts
\* to be processed, also after an unlabeled line was stored under the trimmed
\* prefix, so every key written for a pair of a line is
\* normalize(section)__ followed by '__'-separated segments.
C32_PrefixEndsWithSeparator ==
  /\ (pc = "page" /\ section_name # None) => endswith(section_name_key, Separator)
  /\ PairsLineRead =>
       \A k \in (DOMAIN data) \ (DOMAIN pre.data) : startswith(k, SectionPrefix)

(***************************************************************************)
(* Properties of the label steps (specification SpecLabels)                *)
(***************************************************************************)
\* r without the n characters at offset p
CutAt(r, p, n) == Sub(r, 0, p) \o Sub(r, p + n, Len(r))

\* offset in r of the value of the label found at offset p: its occurrence
\* after the label when there is one
ValueOffset(r, p, lab, value) ==
  LET after == find(Sub(r, p + Len(lab), Len(r)), value)
  IN  IF after = -1 THEN find(r, value) ELSE p + Len(lab) + after

\* r without the matched occurrence of the label of write w and of its value
CutWrite(r, w) ==
  LET lab == C9_Removed(w)
      p == find(r, lab)
      q == IF truthy(w.value) THEN ValueOffset(r, p, lab, w.value) ELSE -1
      r1 == IF q = -1 THEN r ELSE CutAt(r, q, Len(w.value))
  IN  IF p = -1 THEN strip(r1) ELSE strip(CutAt(strip(r1), find(strip(r1), lab), Len(lab)))

\* the trimmed line without the labels matched by the first i writes and
\* their values, every other character kept
RECURSIVE MatchedCut(_)
MatchedCut(i) ==
  IF i = 0 THEN LastText ELSE CutWrite(MatchedCut(i - 1), last.writes[i])

LabelsMatched == LineRead /\ raised = "" /\ last.writes # <<>>

\* C33: after the label steps matched labels on a line, the remainder handed
\* to the later steps is the line without exactly the matched labels and
\* their values, every other character kept unchanged and in order.
C33_RemainderKeepsOtherText ==
  LabelsMatched => last.remainder = MatchedCut(Len(last.writes))

\* the labels matched on the line read and their values cover all of it
CoveredLineRead == LabelsMatched /\ last.remainder = <<>>

\* the keys of the labels matched on the line read
WrittenKeys == {last.writes[i].key : i \in 1..Len(last.writes)}

\* C34: a line wholly covered by matched labels (global or of the section)
\* and their values writes only the keys of those labels to the record and
\* leaves the key prefix and the continuation flags as they were.
C34_CoveredLineWritesOnlyLabels ==
  CoveredLineRead =>
    /\ DOMAIN data = (DOMAIN pre.data) \cup WrittenKeys
    /\ \A k \in (DOMAIN pre.data) \ WrittenKeys : data[k] = pre.data[k]
    /\ section_name_key = pre.section_name_key
    /\ reading_multiple_lines_content = pre.reading_multiple_lines_content
    /\ extract_key_value = pre.extract_key_value

(***************************************************************************)
(* Properties of pages (specification Spec)                                *)
(***************************************************************************)
\* the record of the page's lines parsed as the only page of a document
RecordAlone == parse_lines(lines, 1, page_state({})).data

\* C35: the record of a page depends on the page's lines and the layout only:
\* it is the record the page gives when parsed alone, whatever pages of the
\* document were parsed before it.
C35_PageRecordIndependent ==
  PageOver => pages_data[Len(pages_data)] = RecordAlone

\* a second page that matches a global label the first page matched too and
\* gives another record than the first
C35_Witness ==
  /\ pc = "done"
  /\ page_number = 2
  /\ \E i \in 1..Len(matched_labels) :
       matched_labels[i].page = 1 /\ matched_labels[i].section = None
  /\ \E i \in 1..Len(matched_labels) :
       matched_labels[i].page = 2 /\ matched_labels[i].section = None
  /\ pages_data[1] # pages_data[2]
  /\ pages_data[2] # EmptyData

\* line i of the page is a section title
IsTitleAt(i) ==
  /\ strip(lines[i].text) \in DOMAIN get_sections_all
  /\ strip(lines[i].text) \notin get_ignore_lines

\* line i of the page was read after a section title of the page
InSectionAt(i) == \E j \in 1..(i - 1) : IsTitleAt(j)

\* PendingLines of the page being parsed
PagePending ==
  IF page_number \in DOMAIN pages_pending_lines
  THEN pages_pending_lines[page_number] ELSE {}

\* C36: once a section title was read on a page every later line of the page
\* is consumed, whatever its content: it is not in the page's PendingLines,
\* which hold only lines read before the page's first title.
C36_SectionLinesNeverPending ==
  /\ pc = "page" =>
       \A i \in 1..Len(lines) : InSectionAt(i) => lines[i].text \in extracted_lines
  /\ PageOver =>
       /\ \A i \in 1..Len(lines) :
            InSectionAt(i) => Consumed(i) /\ lines[i].text \notin PagePending
       /\ \A t \in PagePending :
            \E i \in 1..Len(lines) : lines[i].text = t /\ ~InSectionAt(i) /\ ~IsTitleAt(i)

\* a page with a pending line before its title and free text after it
C36_Witness ==
  /\ PageOver
  /\ lines = <<LineM, TitleP, LineA, LineT>>
  /\ PagePending = {LineM.text}

(***************************************************************************)
(* Order of the words (specification SpecLines)                            *)
(***************************************************************************)
\* no two words of ws at the same (y0, x0)
DistinctPlaces(ws) ==
  \A i, j \in 1..Len(ws) : i # j => <<ws[i].y0, ws[i].x0>> # <<ws[j].y0, ws[j].x0>>

\* the orderings of the words ws
Orderings(ws) ==
  {[i \in 1..Len(ws) |-> ws[f[i]]] :
     f \in {g \in [1..Len(ws) -> 1..Len(ws)] :
              \A a, b \in 1..Len(ws) : a # b => g[a] # g[b]}}

\* C37: the lines reconstructed do not depend on the order in which the words
\* are supplied: every ordering of the same words, at pairwise distinct
\* (y0, x0), gives the same sequence of lines (text, x0, y0).
C37_WordOrderIrrelevant ==
  (LinesDone /\ DistinctPlaces(words_raw)) =>
    \A q \in Orderings(words_raw) : extract_lines_from_page(q) = rec_lines

\* three words supplied out of reading order, on two lines
C37_Witness ==
  /\ LinesDone
  /\ DistinctPlaces(words_raw)
  /\ Len(words_raw) = 3
  /\ words_raw # words
  /\ Len(rec_lines) = 2
  /\ \E i \in 1..2 : Len(line_words[i]) = 2

(***************************************************************************)
(* Properties of uploads handled at the same time (specification           *)
(* SpecUploads)                                                            *)
(***************************************************************************)
\* C38: two uploads handled at the same time do not interfere: under every
\* interleaving of their steps (save the file, run process, move the page
\* files, clear tmp) the dataset and the page links of each request come from
\* the file uploaded in that request only.
C38_UploadsDoNotInterfere ==
  \A r \in DOMAIN up_pc :
    /\ up_df[r] \in {0, r}
    /\ \A n \in DOMAIN up_links[r] : up_links[r][n] = r

(***************************************************************************)
(* Properties of the column Alterado (specification SpecAlterado)          *)
(***************************************************************************)
AlteradoDone == alt_pc = "done"

\* the BI-RADS value b is a number, at least k or exactly k
AtLeast(b, k) == ~b.nan /\ b.n >= k
Exactly(b, k) == ~b.nan /\ b.n = k

SideFourOrMore == AtLeast(birads_md, 4) \/ AtLeast(birads_me, 4)
SideThree == Exactly(birads_md, 3) \/ Exactly(birads_me, 3)

\* C39: definir_alterado returns 2 exactly when a side has a BI-RADS number
\* of 4 or more; otherwise 1 exactly when a side has BI-RADS 3 or usg is 1;
\* otherwise 0. The result is in {0, 1, 2} and usg = 1 never gives 0.
C39_AlteradoByBirads ==
  AlteradoDone =>
    /\ alterado \in {0, 1, 2}
    /\ alterado = 2 <=> SideFourOrMore
    /\ alterado = 1 <=> (~SideFourOrMore /\ (SideThree \/ usg = 1))
    /\ alterado = 0 <=> (~SideFourOrMore /\ ~SideThree /\ usg # 1)
    /\ usg = 1 => alterado # 0

\* a row marked 1 for the ultrasound indication alone
C39_Witness ==
  /\ AlteradoDone
  /\ alterado = 1
  /\ usg = 1
  /\ Exactly(birads_md, 2)
  /\ Exactly(birads_me, 1)

\* C40: the value 0 is given only to rows whose BI-RADS number is 1 or 2 on
\* both sides; a row with a missing or unparsable classification on a side is
\* never marked 0.
C40_ZeroOnlyForBirads1Or2 ==
  (AlteradoDone /\ alterado = 0) =>
    /\ ~birads_md.nan /\ birads_md.n \in {1, 2}
    /\ ~birads_me.nan /\ birads_me.n \in {1, 2}

====
